---- MODULE Spec2Model ----
(***************************************************************************)
(* Model of cinema-scrape: the fetch_films operation of every source       *)
(* scraper, the canonical_film_key function, the orchestrator (main), the  *)
(* feed generation of lib.rs (generate_rss, generate_rss_merged) and the   *)
(* parsing of showtime phrases and running times out of detail pages.      *)
(*                                                                         *)
(* Strings are sequences of one-character strings, so that the string      *)
(* functions of the source (trim, contains, starts_with, rfind, split_at)  *)
(* are computed on characters.  An Option is a sequence of length <= 1.    *)
(* An HTML or JSON document is represented by the values of the elements   *)
(* the scraper selects from it, in document order.                         *)
(***************************************************************************)
EXTENDS Naturals, Integers, Sequences, FiniteSets, TLC

(* ---------------------------------------------------------------------- *)
(* Bounds of the model                                                     *)
(* ---------------------------------------------------------------------- *)
\* most anchors (or API entries, or rows) on one listing page
MaxLinks == 3
\* most films in one list handed to generate_rss / generate_rss_merged
MaxFilms == 2
\* most sources handed to generate_rss_merged
MaxSources == 2

(* ---------------------------------------------------------------------- *)
(* Option and string helpers (Rust std)                                    *)
(* ---------------------------------------------------------------------- *)
None == <<>>
Some(x) == <<x>>
IsSome(o) == Len(o) = 1

IsAsciiDigit(c) == c \in {"0", "1", "2", "3", "4", "5", "6", "7", "8", "9"}

StartsWith(s, p) == Len(s) >= Len(p) /\ SubSeq(s, 1, Len(p)) = p
EndsWith(s, p) == Len(s) >= Len(p) /\ SubSeq(s, Len(s) - Len(p) + 1, Len(s)) = p
Contains(s, p) == \E i \in 1..(Len(s) - Len(p) + 1) : SubSeq(s, i, i + Len(p) - 1) = p

\* str::rfind(char): index of the last occurrence, 0 when there is none
RFind(s, c) ==
    IF \E i \in 1..Len(s) : s[i] = c
    THEN CHOOSE i \in 1..Len(s) : s[i] = c /\ \A j \in (i + 1)..Len(s) : s[j] # c
    ELSE 0

\* str::trim_end_matches(char): drops every trailing c
RECURSIVE TrimEndMatches(_, _)
TrimEndMatches(s, c) ==
    IF Len(s) > 0 /\ s[Len(s)] = c THEN TrimEndMatches(SubSeq(s, 1, Len(s) - 1), c) ELSE s

RECURSIVE TrimStartMatches(_, _)
TrimStartMatches(s, c) ==
    IF Len(s) > 0 /\ s[1] = c THEN TrimStartMatches(SubSeq(s, 2, Len(s)), c) ELSE s

\* str::trim(): drops leading and trailing white space
Trim(s) == TrimStartMatches(TrimEndMatches(s, " "), " ")

\* the set of sequences over S of length at most n
SeqsUpTo(S, n) == UNION {[1..k -> S] : k \in 0..n}

(* ---------------------------------------------------------------------- *)
(* The Film record (lib.rs) restricted to title, url and poster_url; the   *)
(* films of NewBevScraper carry their showtimes too                        *)
(* ---------------------------------------------------------------------- *)
Film(title, url, poster_url) == [title |-> title, url |-> url, poster_url |-> poster_url]

(* ---------------------------------------------------------------------- *)
(* HTTP responses                                                          *)
(* ---------------------------------------------------------------------- *)
\* "ok": 2xx with a body; "net_err": send() fails; "http_err": non-2xx
\* status; "body_err": reading the body fails
Statuses == {"ok", "net_err", "http_err", "body_err"}

\* text of the title element of a detail page: absent, empty, or a title
TitleTexts == {None, Some(<<>>), Some(<<"T">>)}
\* src of the poster image of a detail page
PosterSrcs == {None, Some(<<"/", "p", ".", "j", "p", "g">>)}

\* a detail page: whether the main container is there, the text of the
\* element the scraper reads the title from, and the poster's src
NoPage(st) == [status |-> st, container |-> FALSE, title |-> None, poster |-> None]
FailedPages == {NoPage(st) : st \in Statuses \ {"ok"}}
DetailPages == ([status : {"ok"}, container : BOOLEAN, title : TitleTexts, poster : PosterSrcs]) \cup FailedPages

\* what one iteration of a detail loop does with the result vector
Push(f) == [kind |-> "push", film |-> f]
Skip == [kind |-> "skip"]
Abort == [kind |-> "abort"]

(* ---------------------------------------------------------------------- *)
(* cinema_trieste_scraper.rs                                               *)
(* ---------------------------------------------------------------------- *)
TRIESTE_BASE == <<"h", "t", "t", "p", "s", ":", "/", "/", "w", "w", "w", ".", "l", "a", "c", "a", "p", "p", "e", "l", "l", "a", "u", "n", "d", "e", "r", "g", "r", "o", "u", "n", "d", ".", "o", "r", "g">>
FILM_PATH == <<"/", "f", "i", "l", "m", "/">>
HTTP == <<"h", "t", "t", "p">>

\* the 12 digits of YYYYMMDDHHMM
SuffixLen == 12
\* a segment is examined only when it is longer than this
MinSegmentLen == 13

AllDigits(s) == \A i \in 1..Len(s) : IsAsciiDigit(s[i])

\* canonical_film_key with the '-' separator forgotten
canonical_film_key_underscore_only(url0) ==
    LET url == TrimEndMatches(url0, "/")
        last_slash == RFind(url, "/")
        segment == SubSeq(url, last_slash + 1, Len(url))
        prefix == SubSeq(segment, 1, Len(segment) - SuffixLen)
        suffix == SubSeq(segment, Len(segment) - SuffixLen + 1, Len(segment))
    IN  IF /\ last_slash > 0 /\ Len(segment) > MinSegmentLen /\ AllDigits(suffix)
           /\ Len(prefix) > 0 /\ prefix[Len(prefix)] = "_"
        THEN SubSeq(url, 1, last_slash) \o <<"/">> \o SubSeq(prefix, 1, Len(prefix) - 1) \o <<"/">>
        ELSE url \o <<"/">>

canonical_film_key(url0) ==
    LET url == TrimEndMatches(url0, "/")
        last_slash == RFind(url, "/")
        segment == SubSeq(url, last_slash + 1, Len(url))
        prefix == SubSeq(segment, 1, Len(segment) - SuffixLen)
        suffix == SubSeq(segment, Len(segment) - SuffixLen + 1, Len(segment))
    IN  IF /\ last_slash > 0
           /\ Len(segment) > MinSegmentLen
           /\ AllDigits(suffix)
           /\ Len(prefix) > 0
           /\ prefix[Len(prefix)] \in {"_", "-"}
        THEN SubSeq(url, 1, last_slash) \o <<"/">> \o SubSeq(prefix, 1, Len(prefix) - 1) \o <<"/">>
        ELSE url \o <<"/">>

\* href -> absolute URL, three-way (http / leading slash / relative)
Absolute3(base, href) ==
    IF StartsWith(href, HTTP) THEN href
    ELSE IF StartsWith(href, <<"/">>) THEN base \o href
    ELSE base \o <<"/">> \o href

\* the loop over a[href*="/film/"]: first URL of every canonical key, in
\* document order
RECURSIVE TriesteCollect(_, _, _)
TriesteCollect(anchors, seen, urls) ==
    IF anchors = <<>> THEN urls
    ELSE LET href == Trim(Head(anchors))
             full_url == Absolute3(TRIESTE_BASE, href)
             key == canonical_film_key(full_url)
         IN  IF ~Contains(Head(anchors), FILM_PATH) \/ href = <<>>
             THEN TriesteCollect(Tail(anchors), seen, urls)
             ELSE IF key \in seen
             THEN TriesteCollect(Tail(anchors), seen, urls)
             ELSE TriesteCollect(Tail(anchors), seen \cup {key}, Append(urls, full_url))

TriesteFilmUrls(body) == TriesteCollect(body, {}, <<>>)

\* src -> poster URL, two-way (http / anything else)
Absolute2(base, src) == IF StartsWith(src, HTTP) THEN src ELSE base \o src

\* one iteration of the detail loop
TriesteDetail(url, page) ==
    IF page.status # "ok" THEN Skip
    ELSE IF ~page.container THEN Skip
    ELSE LET title == IF IsSome(page.title) /\ page.title[1] # <<>>
                      THEN page.title[1] ELSE url
             poster_url == IF IsSome(page.poster)
                           THEN Some(Absolute2(TRIESTE_BASE, page.poster[1])) ELSE None
         IN  Push(Film(title, url, poster_url))

(* ---------------------------------------------------------------------- *)
(* space_cinema.rs                                                         *)
(* ---------------------------------------------------------------------- *)
\* an entry of the API's result array (ApiFilm)
\* the API body: not valid JSON for ApiResponse, or a result array

\* parsed.result.into_iter().map(|f| Film {..}).collect()
SpaceFilms(parsed) ==
    [i \in 1..Len(parsed.result) |->
        Film(parsed.result[i].filmTitle, parsed.result[i].filmUrl,
             Some(parsed.result[i].posterImageSrc))]

(* ---------------------------------------------------------------------- *)
(* cinema_padova.rs                                                        *)
(* ---------------------------------------------------------------------- *)

UpperCase == <<"A", "B", "C", "D", "E", "F", "G", "H", "I", "J", "K", "L", "M", "N", "O", "P", "Q", "R", "S", "T", "U", "V", "W", "X", "Y", "Z">>
LowerCase == <<"a", "b", "c", "d", "e", "f", "g", "h", "i", "j", "k", "l", "m", "n", "o", "p", "q", "r", "s", "t", "u", "v", "w", "x", "y", "z">>
\* char::to_lowercase on ASCII
ToLower(c) ==
    IF \E i \in 1..Len(UpperCase) : UpperCase[i] = c
    THEN LowerCase[CHOOSE i \in 1..Len(UpperCase) : UpperCase[i] = c]
    ELSE c

event_name_slug(titolo) ==
    LET \* char::is_ascii_alphanumeric
        IsAsciiAlphanumeric(c) ==
            \/ IsAsciiDigit(c)
            \/ \E i \in 1..Len(UpperCase) : UpperCase[i] = c \/ LowerCase[i] = c
    IN  [i \in 1..Len(titolo) |->
            IF IsAsciiAlphanumeric(ToLower(titolo[i])) THEN ToLower(titolo[i]) ELSE "_"]

\* the loop over data.titoli
RECURSIVE PadovaFilms(_, _)
PadovaFilms(titoli, out) ==
    IF titoli = <<>> THEN out
    ELSE LET t == Head(titoli)
             title == Trim(t.titolo)
             slug == event_name_slug(title)
             url == <<"h", "t", "t", "p", "s", ":", "/", "/", "w", "w", "w", ".", "c", "i", "n", "e", "m", "a", "r", "e", "x", ".", "i", "t", "/", "p", "r", "o", "g", "r", "a", "m", "m", "a", "z", "i", "o", "n", "e">> \o <<"/", "e", "v", "e", "n", "t", "o", "?", "e", "v", "e", "n", "t", "N", "a", "m", "e", "=">> \o slug
         IN  IF t.categoria_film # <<"y">> THEN PadovaFilms(Tail(titoli), out)
             ELSE IF title = <<>> THEN PadovaFilms(Tail(titoli), out)
             ELSE PadovaFilms(Tail(titoli), Append(out, Film(title, url, None)))

(* ---------------------------------------------------------------------- *)
(* cinema_edera.rs                                                         *)
(* ---------------------------------------------------------------------- *)

\* str::find(pattern): index of the first occurrence, 0 when there is none
Find(s, p) ==
    IF Contains(s, p)
    THEN CHOOSE i \in 1..(Len(s) - Len(p) + 1) :
            /\ SubSeq(s, i, i + Len(p) - 1) = p
            /\ \A j \in 1..(i - 1) : SubSeq(s, j, j + Len(p) - 1) # p
    ELSE 0

\* the origin of the listing URL (positions are 1-based here)
base_from_listing_url(listing_url) ==
    LET proto == Find(listing_url, <<":", "/", "/">>)
        after_proto == IF proto > 0 THEN proto + 3 ELSE 1
        rest == SubSeq(listing_url, after_proto, Len(listing_url))
        slash == Find(rest, <<"/">>)
        path_start == IF slash > 0 THEN after_proto + slash - 1 ELSE Len(listing_url) + 1
    IN  SubSeq(listing_url, 1, path_start - 1)

EderaBase == base_from_listing_url(<<"h", "t", "t", "p", "s", ":", "/", "/", "w", "w", "w", ".", "c", "i", "n", "e", "m", "a", "e", "d", "e", "r", "a", ".", "i", "t", "/", "i", "-", "f", "i", "l", "m", "-", "d", "e", "l", "l", "a", "-", "s", "e", "t", "t", "i", "m", "a", "n", "a", ".", "h", "t", "m", "l">>)

\* an a.category__item of the timetable: its href attribute and the text
\* of its <strong>, each possibly missing
\* the listing: whether #timetable is there, and its links in order

\* the loops over the rows and links of the timetable
RECURSIVE EderaCollect(_, _, _)
EderaCollect(links, seen_urls, out) ==
    IF links = <<>> THEN out
    ELSE LET link == Head(links)
             href == IF IsSome(link.href) THEN link.href[1] ELSE <<>>
             full_url == EderaBase \o href
             title == IF IsSome(link.strong) THEN Trim(link.strong[1]) ELSE <<>>
         IN  IF full_url \in seen_urls THEN EderaCollect(Tail(links), seen_urls, out)
             ELSE IF title # <<>> /\ href # <<>>
             THEN EderaCollect(Tail(links), seen_urls \cup {full_url},
                               Append(out, Film(title, full_url, None)))
             ELSE EderaCollect(Tail(links), seen_urls, out)

Update(f) == [kind |-> "update", film |-> f]

\* one iteration of films.iter_mut()
EderaDetail(film, page) ==
    IF page.status \in {"net_err", "body_err"} THEN Skip
    ELSE IF IsSome(page.poster)
    THEN Update([film EXCEPT !.poster_url = Some(Absolute2(EderaBase, page.poster[1]))])
    ELSE Update(film)

(* ---------------------------------------------------------------------- *)
(* cinemazero.rs                                                           *)
(* ---------------------------------------------------------------------- *)
CINEMAZERO_BASE == <<"h", "t", "t", "p", "s", ":", "/", "/", "c", "i", "n", "e", "m", "a", "z", "e", "r", "o", ".", "i", "t">>

\* the loop over a[href]: cinemazero.it film pages, first occurrence of
\* every URL, in document order
RECURSIVE CinemazeroCollect(_, _, _)
CinemazeroCollect(anchors, seen, list) ==
    IF anchors = <<>> THEN list
    ELSE LET href == Trim(Head(anchors))
             absolute == Absolute3(CINEMAZERO_BASE, href)
         IN  IF ~Contains(href, FILM_PATH) THEN CinemazeroCollect(Tail(anchors), seen, list)
             ELSE IF StartsWith(absolute, <<"h", "t", "t", "p", "s", ":", "/", "/", "c", "i", "n", "e", "m", "a", "z", "e", "r", "o", ".", "i", "t", "/", "f", "i", "l", "m", "/">>) /\ absolute \notin seen
             THEN CinemazeroCollect(Tail(anchors), seen \cup {absolute}, Append(list, absolute))
             ELSE CinemazeroCollect(Tail(anchors), seen, list)

\* one iteration of the detail loop: send().await?.error_for_status()? and
\* text().await? return the error from fetch_films
CinemazeroDetail(url, page) ==
    IF page.status # "ok" THEN Abort
    ELSE LET h1 == IF IsSome(page.title) THEN page.title[1] ELSE <<>>
             title == IF h1 # <<>> THEN h1
                      ELSE IF IsSome(page.first_text) THEN page.first_text[1]
                      ELSE url
             s == IF IsSome(page.poster) THEN Trim(page.poster[1]) ELSE <<>>
             poster_url == IF s # <<>> THEN Some(Absolute3(CINEMAZERO_BASE, s)) ELSE None
         IN  Push(Film(title, url, poster_url))

(* ---------------------------------------------------------------------- *)
(* enrico_pizzuti.rs                                                       *)
(* ---------------------------------------------------------------------- *)
\* how many ancestors of the h5 are examined
WalkLevels == 6

\* the a[href] links of one container: film links not seen before
RECURSIVE PizzutiContainer(_, _, _)
PizzutiContainer(links, seen_urls, urls_in_container) ==
    IF links = <<>> THEN [seen |-> seen_urls, urls |-> urls_in_container]
    ELSE LET href == Head(links)
             full_url == Absolute2(<<"h", "t", "t", "p", "s", ":", "/", "/", "w", "w", "w", ".", "e", "n", "r", "i", "c", "o", "p", "i", "z", "z", "u", "t", "i", ".", "i", "t">>, href)
         IN  IF Contains(href, FILM_PATH) /\ full_url \notin seen_urls
             THEN PizzutiContainer(Tail(links), seen_urls \cup {full_url},
                                   Append(urls_in_container, full_url))
             ELSE PizzutiContainer(Tail(links), seen_urls, urls_in_container)

\* the walk up from an h5: the first examined ancestor that has film links
RECURSIVE PizzutiWalk(_, _, _)
PizzutiWalk(ancestors, level, seen_urls) ==
    IF ancestors = <<>> \/ level > WalkLevels THEN [seen |-> seen_urls, urls |-> <<>>]
    ELSE LET c == PizzutiContainer(Head(ancestors), seen_urls, <<>>)
         IN  IF c.urls # <<>> THEN c
             ELSE PizzutiWalk(Tail(ancestors), level + 1, c.seen)

\* the loop over the h5 elements: stops at the first Cineforum heading
\* that leads to film links
RECURSIVE PizzutiFilmUrls(_, _)
PizzutiFilmUrls(h5s, seen_urls) ==
    IF h5s = <<>> THEN <<>>
    ELSE IF ~Contains([i \in DOMAIN Head(h5s).text |-> ToLower(Head(h5s).text[i])], <<"c", "i", "n", "e", "f", "o", "r", "u", "m">>)
    THEN PizzutiFilmUrls(Tail(h5s), seen_urls)
    ELSE LET w == PizzutiWalk(Head(h5s).ancestors, 1, seen_urls)
         IN  IF w.urls # <<>> THEN w.urls ELSE PizzutiFilmUrls(Tail(h5s), w.seen)

PizzutiDetail(url, page) ==
    IF page.status # "ok" THEN Abort
    ELSE IF ~page.container THEN Skip
    ELSE LET title == IF IsSome(page.title) /\ page.title[1] # <<>>
                      THEN page.title[1] ELSE <<"S", "e", "n", "z", "a", " ", "t", "i", "t", "o", "l", "o">>
             poster_url == IF IsSome(page.poster) /\ Trim(page.poster[1]) # <<>>
                           THEN Some(page.poster[1]) ELSE None
         IN  Push(Film(title, url, poster_url))

(* ---------------------------------------------------------------------- *)
(* berlinale.rs                                                            *)
(* ---------------------------------------------------------------------- *)
BERLINALE_BASE == <<"h", "t", "t", "p", "s", ":", "/", "/", "w", "w", "w", ".", "b", "e", "r", "l", "i", "n", "a", "l", "e", ".", "d", "e">>
PROGRAMME == <<"/", "p", "r", "o", "g", "r", "a", "m", "m", "e", "/">>
DOT_HTML == <<".", "h", "t", "m", "l">>
\* least number of digits of a film id
MinIdLen == 6

\* the characters of the model in ASCII order
Ascii == <<" ", "!", "-", ".", "/", "0", "1", "2", "3", "4", "5", "6", "7", "8", "9", ":", "<", "=", ">", "?", "A", "B", "C", "D", "E", "F", "G", "H", "I", "J", "K", "L", "M", "N", "O", "P", "Q", "R", "S", "T", "U", "V", "W", "X", "Y", "Z", "\\", "_", "a", "b", "c", "d", "e", "f", "g", "h", "i", "j", "k", "l", "m", "n", "o", "p", "q", "r", "s", "t", "u", "v", "w", "x", "y", "z", "|">>
Code(c) == CHOOSE i \in 1..Len(Ascii) : Ascii[i] = c

\* a < b in the order of String (byte-wise lexicographic)
RECURSIVE LexLess(_, _)
LexLess(a, b) ==
    IF b = <<>> THEN FALSE
    ELSE IF a = <<>> THEN TRUE
    ELSE IF Head(a) = Head(b) THEN LexLess(Tail(a), Tail(b))
    ELSE Code(Head(a)) < Code(Head(b))

\* Vec::sort of the elements of a set of strings
RECURSIVE SortedSeq(_)
SortedSeq(S) ==
    IF S = {} THEN <<>>
    ELSE LET m == CHOOSE x \in S : \A y \in S \ {x} : LexLess(x, y)
         IN  <<m>> \o SortedSeq(S \ {m})

\* str::trim_end_matches(&str): drops every trailing repetition of p
RECURSIVE TrimEndMatchesStr(_, _)
TrimEndMatchesStr(s, p) ==
    IF Len(p) > 0 /\ EndsWith(s, p)
    THEN TrimEndMatchesStr(SubSeq(s, 1, Len(s) - Len(p)), p) ELSE s

is_film_detail_url(url) ==
    IF ~Contains(url, PROGRAMME) \/ ~EndsWith(url, DOT_HTML) THEN FALSE
    ELSE LET before_html == TrimEndMatches(TrimEndMatchesStr(url, DOT_HTML), "?")
             id_part == SubSeq(before_html, RFind(before_html, "/") + 1, Len(before_html))
         IN  Len(id_part) >= MinIdLen /\ AllDigits(id_part)

\* length of the run of ASCII digits at the start of s, as
\* find(|c| !c.is_ascii_digit()).unwrap_or(0) gives it
DigitRun(s) ==
    IF \E i \in 1..Len(s) : ~IsAsciiDigit(s[i])
    THEN (CHOOSE i \in 1..Len(s) :
            ~IsAsciiDigit(s[i]) /\ \A j \in 1..(i - 1) : IsAsciiDigit(s[j])) - 1
    ELSE 0

\* positions where needle occurs in html
MatchIndices(html, needle) ==
    {i \in 1..(Len(html) - Len(needle) + 1) : SubSeq(html, i, i + Len(needle) - 1) = needle}

\* the ids found after one needle
RawIdsAfter(html, needle) ==
    {SubSeq(html, i + Len(needle), i + Len(needle) + DigitRun(SubSeq(html, i + Len(needle), Len(html))) - 1) :
        i \in {j \in MatchIndices(html, needle) :
                 LET after == SubSeq(html, j + Len(needle), Len(html))
                     end == DigitRun(after)
                     rest == SubSeq(after, end + 1, Len(after))
                 IN  end >= MinIdLen /\ (StartsWith(rest, DOT_HTML) \/ StartsWith(rest, <<"\\">>))}}

YEAR == <<"2", "0", "2", "6">>
\* the ids found as "2026" followed by five digits
RawIdsByYear(html) ==
    {YEAR \o SubSeq(html, i + 4, i + 8) :
        i \in {j \in MatchIndices(html, YEAR) :
                 Len(html) - (j + 3) >= 5 /\ AllDigits(SubSeq(html, j + 4, j + 8))}}

extract_film_urls_from_raw(html) ==
    LET by_needle == RawIdsAfter(html, PROGRAMME) \cup RawIdsAfter(html, <<"\\", "/", "p", "r", "o", "g", "r", "a", "m", "m", "e", "\\", "/">>)
        ids == IF by_needle = {} THEN RawIdsByYear(html) ELSE by_needle
    IN  SortedSeq({BERLINALE_BASE \o <<"/", "e", "n", "/", "2", "0", "2", "6", "/", "p", "r", "o", "g", "r", "a", "m", "m", "e", "/">> \o id \o DOT_HTML : id \in ids})

\* the HTML text of the listing
RECURSIVE RawHtml(_)
RawHtml(b) ==
    IF b = <<>> THEN <<>> ELSE <<"<">> \o Head(b).text \o <<">">> \o RawHtml(Tail(b))

\* the hrefs of the anchors a[href*="/programme/"][href$=".html"]
RECURSIVE BerlinaleAnchors(_)
BerlinaleAnchors(b) ==
    IF b = <<>> THEN <<>>
    ELSE IF /\ Head(b).tag = "a"
            /\ Contains(Head(b).text, PROGRAMME)
            /\ EndsWith(Head(b).text, DOT_HTML)
    THEN <<Head(b).text>> \o BerlinaleAnchors(Tail(b))
    ELSE BerlinaleAnchors(Tail(b))

extract_film_urls(b) ==
    LET anchors == BerlinaleAnchors(b)
        urls == {u \in {Absolute3(BERLINALE_BASE, Trim(anchors[i])) : i \in 1..Len(anchors)} :
                    is_film_detail_url(u)}
    IN  IF urls = {} THEN extract_film_urls_from_raw(RawHtml(b)) ELSE SortedSeq(urls)

BerlinaleDetail(url, page) ==
    IF page.status # "ok" THEN Skip
    ELSE LET title == IF IsSome(page.title)
                      THEN TrimEndMatchesStr(page.title[1], <<" ", "|", " ", "B", "e", "r", "l", "i", "n", "a", "l", "e">>) ELSE <<>>
             poster_url == IF IsSome(page.poster)
                           THEN Some(Absolute2(BERLINALE_BASE, page.poster[1])) ELSE None
         IN  IF title = <<>> \/ StartsWith(title, <<"h", "t", "t", "p", "s", ":", "/", "/">>) THEN Skip
             ELSE Push(Film(title, url, poster_url))

(* ---------------------------------------------------------------------- *)
(* new_bev.rs                                                              *)
(* ---------------------------------------------------------------------- *)
NEWBEV_BASE == <<"h", "t", "t", "p", "s", ":", "/", "/", "t", "h", "e", "n", "e", "w", "b", "e", "v", ".", "c", "o", "m">>
PROGRAM_PATH == <<"/", "p", "r", "o", "g", "r", "a", "m", "/">>

ScheduleEntry(title, url, showtime, poster_url) ==
    [title |-> title, url |-> url, showtime |-> showtime, poster_url |-> poster_url]

RECURSIVE parse_schedule(_)
parse_schedule(cards) ==
    IF cards = <<>> THEN <<>>
    ELSE LET card == Head(cards)
             href == IF IsSome(card.href) THEN Trim(card.href[1]) ELSE <<>>
             url == TrimEndMatches(Absolute3(NEWBEV_BASE, href), "/")
             poster_url == IF IsSome(card.poster)
                           THEN Some(Absolute3(NEWBEV_BASE, Trim(card.poster[1]))) ELSE None
             rest == parse_schedule(Tail(cards))
         IN  IF ~IsSome(card.href) THEN rest
             ELSE IF href = <<>> \/ ~Contains(href, PROGRAM_PATH) THEN rest
             ELSE IF ~Contains(url, <<"t", "h", "e", "n", "e", "w", "b", "e", "v", ".", "c", "o", "m">>) \/ ~Contains(url, PROGRAM_PATH) THEN rest
             ELSE IF Trim(card.title) = <<>> THEN rest
             ELSE <<ScheduleEntry(Trim(card.title), url, Trim(card.showtime), poster_url)>> \o rest

\* by_url after the loop over the entries: the UniquePrograms by URL
RECURSIVE MergeByUrl(_, _)
MergeByUrl(entries, by_url) ==
    IF entries = <<>> THEN by_url
    ELSE LET entry == Head(entries)
             known == \E q \in by_url : q.url = entry.url
             old == CHOOSE q \in by_url : q.url = entry.url
             fresh == [title |-> entry.title, url |-> entry.url, showtimes |-> <<>>,
                       poster_url |-> entry.poster_url]
             program == IF known THEN old ELSE fresh
         IN  MergeByUrl(Tail(entries),
                        (by_url \ {program}) \cup
                        {[program EXCEPT !.showtimes = Append(@, entry.showtime)]})

\* every sequence that enumerates the set S once
RECURSIVE Orderings(_)
Orderings(S) ==
    IF S = {} THEN {<<>>}
    ELSE UNION {{<<x>> \o o : o \in Orderings(S \ {x})} : x \in S}

\* fetch_program_page: a failed request gives the empty tuple
fetch_program_page(page) ==
    IF page.status # "ok" THEN None
    ELSE IF IsSome(page.poster) /\ Trim(page.poster[1]) # <<>>
    THEN Some(Trim(page.poster[1])) ELSE None

\* one iteration of the loop over unique
NewBevDetail(program, page) ==
    LET poster_from_page == fetch_program_page(page)
        poster_url == IF IsSome(poster_from_page) THEN poster_from_page
                      ELSE program.poster_url
    IN  Push(Film(program.title, program.url, poster_url)
                @@ [showtimes |-> Some(program.showtimes)])

(* ---------------------------------------------------------------------- *)
(* cinergia_conegliano.rs                                                  *)
(* ---------------------------------------------------------------------- *)
\* chrono::Local::now() formatted %Y-%m-%d, on the day of the run

\* str::trim_start_matches(&str): drops every leading repetition of p
RECURSIVE TrimStartMatchesStr(_, _)
TrimStartMatchesStr(s, p) ==
    IF Len(p) > 0 /\ StartsWith(s, p)
    THEN TrimStartMatchesStr(SubSeq(s, Len(p) + 1, Len(s)), p) ELSE s

\* s.split(c).next(): the part before the first c
BeforeChar(s, c) == IF Find(s, <<c>>) > 0 THEN SubSeq(s, 1, Find(s, <<c>>) - 1) ELSE s

\* s.split(p).nth(1): the part between the first and the second p
SplitNth1(s, p) ==
    LET i == Find(s, p)
        after == SubSeq(s, i + Len(p), Len(s))
        j == Find(after, p)
    IN  IF i = 0 THEN None
        ELSE IF j = 0 THEN Some(after) ELSE Some(SubSeq(after, 1, j - 1))

\* the id of one a[href*="/film/"], if it has one
CinergiaId(href0) ==
    LET href == Trim(href0)
        path == BeforeChar(href, "?")
        rest == IF StartsWith(path, FILM_PATH)
                THEN TrimEndMatches(TrimStartMatchesStr(path, FILM_PATH), "/")
                ELSE TrimEndMatches(SplitNth1(path, FILM_PATH)[1], "/")
        id_part == BeforeChar(rest, "/")
    IN  IF ~Contains(path, FILM_PATH) THEN None
        ELSE IF id_part # <<>> /\ AllDigits(id_part) THEN Some(id_part) ELSE None

extract_film_ids(document) ==
    SortedSeq({CinergiaId(document[i].text)[1] :
                 i \in {j \in 1..Len(document) :
                          /\ document[j].tag = "a"
                          /\ Contains(document[j].text, FILM_PATH)
                          /\ IsSome(CinergiaId(document[j].text))}})

\* length of the run of ASCII digits at the start of s, as
\* find(|c| !c.is_ascii_digit()).unwrap_or(after.len()) gives it
DigitRunToEnd(s) ==
    IF \E i \in 1..Len(s) : ~IsAsciiDigit(s[i]) THEN DigitRun(s) ELSE Len(s)

extract_film_ids_from_raw(html) ==
    SortedSeq({id \in {SubSeq(html, i + 6, i + 5 + DigitRunToEnd(SubSeq(html, i + 6, Len(html)))) :
                         i \in MatchIndices(html, FILM_PATH)} : id # <<>>})

CinergiaFilmUrl(id) == <<"h", "t", "t", "p", "s", ":", "/", "/", "c", "o", "n", "e", "g", "l", "i", "a", "n", "o", "c", "i", "n", "e", "r", "g", "i", "a", ".", "1", "8", "t", "i", "c", "k", "e", "t", "s", ".", "i", "t">> \o FILM_PATH \o id \o <<"?", "r", "e", "f", "_", "d", "a", "t", "e", "=">> \o <<"2", "0", "2", "6", "-", "0", "2", "-", "0", "9">>

\* one iteration of the loop over film_ids; page.title is the text of the
\* first heading that has text other than Plot, Info, Trama
CinergiaDetail(id, page) ==
    IF page.status # "ok" THEN Skip
    ELSE LET title == IF IsSome(page.title) /\ page.title[1] # <<>>
                      THEN page.title[1] ELSE <<"F", "i", "l", "m", " ">> \o id
         IN  Push(Film(title, CinergiaFilmUrl(id), page.poster))

(* ---------------------------------------------------------------------- *)
(* porto_astra.rs                                                          *)
(* ---------------------------------------------------------------------- *)

\* the HashSet of absolute URLs of the a[href*="/film/"]
PortoAstraUrlSet(anchors) ==
    {Absolute3(<<"h", "t", "t", "p", "s", ":", "/", "/", "p", "o", "r", "t", "o", "a", "s", "t", "r", "a", ".", "i", "t">>, Trim(anchors[i])) :
        i \in {j \in 1..Len(anchors) :
                 Contains(anchors[j], FILM_PATH) /\ Trim(anchors[j]) # <<>>}}

PortoAstraDetail(url, page) ==
    IF page.status # "ok" THEN Skip
    ELSE LET title == IF IsSome(page.title) /\ page.title[1] # <<>> THEN page.title
                      ELSE page.bold
             poster_url == IF IsSome(page.poster) THEN Some(Trim(page.poster[1])) ELSE None
         IN  IF ~IsSome(title) THEN Skip
             ELSE Push(Film(title[1], url, poster_url))

(* ---------------------------------------------------------------------- *)
(* rassegne.rs                                                             *)
(* ---------------------------------------------------------------------- *)
CRISTALLO_BASE == <<"h", "t", "t", "p", "s", ":", "/", "/", "w", "w", "w", ".", "c", "i", "n", "e", "m", "a", "c", "r", "i", "s", "t", "a", "l", "l", "o", ".", "c", "o", "m">>
CINEMAEDERA_BASE == <<"h", "t", "t", "p", "s", ":", "/", "/", "w", "w", "w", ".", "c", "i", "n", "e", "m", "a", "e", "d", "e", "r", "a", ".", "i", "t">>

\* the loop over the a[href*="/movie/"] of the rassegna section
RECURSIVE RassegneCollect(_, _, _)
RassegneCollect(anchors, seen, urls) ==
    IF anchors = <<>> THEN urls
    ELSE LET href == Trim(Head(anchors))
             full == Absolute2(CRISTALLO_BASE, href)
         IN  IF ~Contains(Head(anchors), <<"/", "m", "o", "v", "i", "e", "/">>) \/ href = <<>> \/ full \in seen
             THEN RassegneCollect(Tail(anchors), seen, urls)
             ELSE RassegneCollect(Tail(anchors), seen \cup {full}, Append(urls, full))

\* extract_title_fallback: the text of the first h1, when it is not empty
extract_title_fallback(page) ==
    IF IsSome(page.title) /\ page.title[1] # <<>> THEN page.title ELSE None

\* extract_poster
extract_poster(page) ==
    IF IsSome(page.poster) /\ Trim(page.poster[1]) # <<>>
    THEN Some(Absolute2(CRISTALLO_BASE, Trim(page.poster[1]))) ELSE None

RassegneDetail(url, page) ==
    IF page.status # "ok" THEN Abort
    ELSE IF ~page.container
    THEN LET t == extract_title_fallback(page)
         IN  Push(Film(IF IsSome(t) THEN t[1] ELSE url, url, extract_poster(page)))
    ELSE LET t == IF IsSome(page.info_line) THEN page.info_line
                  ELSE extract_title_fallback(page)
         IN  Push(Film(IF IsSome(t) THEN t[1] ELSE url, url, extract_poster(page)))

\* the loop over a[href*="/rassegne/"] (EderaRassegneScraper and
\* RassegneScraperEdera)
RECURSIVE EderaRassegneCollect(_, _, _)
EderaRassegneCollect(anchors, seen, urls) ==
    IF anchors = <<>> THEN urls
    ELSE LET href == Trim(Head(anchors))
             full == Absolute2(CINEMAEDERA_BASE, href)
         IN  IF \/ ~Contains(Head(anchors), <<"/", "r", "a", "s", "s", "e", "g", "n", "e", "/">>)
                \/ href = <<>>
                \/ EndsWith(href, <<"/", "r", "a", "s", "s", "e", "g", "n", "e", ".", "h", "t", "m", "l">>)
                \/ full \in seen
             THEN EderaRassegneCollect(Tail(anchors), seen, urls)
             ELSE EderaRassegneCollect(Tail(anchors), seen \cup {full}, Append(urls, full))

EderaRassegneDetail(url, page) ==
    IF page.status # "ok" THEN Abort
    ELSE LET t == extract_title_fallback(page)
         IN  Push(Film(IF IsSome(t) THEN t[1] ELSE url, url, None))

(* ---------------------------------------------------------------------- *)
(* rassegne_edera.rs                                                       *)
(* ---------------------------------------------------------------------- *)

\* the loop over the a[href] of a rassegna page: links to film pages
RECURSIVE InnerCollect(_, _, _)
InnerCollect(anchors, seen_inner, inner_urls) ==
    IF anchors = <<>> THEN inner_urls
    ELSE LET href == Trim(Head(anchors))
             full == Absolute2(CINEMAEDERA_BASE, href)
         IN  IF \/ href = <<>>
                \/ Contains(href, <<"/", "r", "a", "s", "s", "e", "g", "n", "e", "/">>)
                \/ ~(Contains(href, <<"/", "f", "i", "l", "m">>) \/ Contains(href, <<"i", "-", "f", "i", "l", "m">>))
                \/ full \in seen_inner
             THEN InnerCollect(Tail(anchors), seen_inner, inner_urls)
             ELSE InnerCollect(Tail(anchors), seen_inner \cup {full}, Append(inner_urls, full))

\* the rassegna page: its h1 and its links
\* a film page linked from a rassegna page

\* the rassegna page arrives: the part of the outer loop body before the
\* inner loop
RassegneEderaDetail(url, page) ==
    IF page.status # "ok" THEN Abort
    ELSE LET t == extract_title_fallback(page)
         IN  [kind |-> "inner", title |-> IF IsSome(t) THEN t[1] ELSE url,
              inner_urls |-> InnerCollect(page.links, {}, <<>>)]

\* film_poster of one inner film page
InnerPoster(page) ==
    IF IsSome(page.poster) /\ Trim(page.poster[1]) # <<>>
    THEN Some(Absolute2(CINEMAEDERA_BASE, Trim(page.poster[1]))) ELSE None

\* inner_infos.iter().find_map(|(_, poster, _)| poster.clone())
RECURSIVE FirstPoster(_)
FirstPoster(inner_infos) ==
    IF inner_infos = <<>> THEN None
    ELSE IF IsSome(Head(inner_infos)) THEN Head(inner_infos)
    ELSE FirstPoster(Tail(inner_infos))

(* ---------------------------------------------------------------------- *)
(* lib.rs: generate_rss and generate_rss_merged                           *)
(* ---------------------------------------------------------------------- *)
\* parts.join(sep)
RECURSIVE Join(_, _)
Join(parts, sep) ==
    IF parts = <<>> THEN <<>>
    ELSE IF Len(parts) = 1 THEN parts[1]
    ELSE parts[1] \o sep \o Join(Tail(parts), sep)

\* format!("{}", n) of an unsigned integer
RECURSIVE ToDecimal(_)
ToDecimal(n) ==
    LET digit(d) == <<"0", "1", "2", "3", "4", "5", "6", "7", "8", "9">>[d + 1]
    IN  IF n < 10 THEN <<digit(n)>> ELSE ToDecimal(n \div 10) \o <<digit(n % 10)>>

\* description with the fragments "Data:" and "Cast:" exchanged
film_description_swapped(film, now) ==
    LET parts == (IF IsSome(film.synopsis) THEN <<film.synopsis[1]>> ELSE <<>>)
              \o (IF IsSome(film.release_date)
                  THEN <<<<"D", "a", "t", "a", ":", " ">> \o film.release_date[1]>> ELSE <<>>)
              \o (IF IsSome(film.cast) THEN <<<<"C", "a", "s", "t", ":", " ">> \o film.cast[1]>> ELSE <<>>)
    IN  [description |-> IF parts = <<>> THEN <<"F", "i", "l", "m", ":", " ">> \o film.title
                         ELSE Join(parts, <<"<", "b", "r", "/", ">">> \o <<"\n">>),
         pub_date |-> None]

\* a publish date for every film that has a release date
film_pub_date_always(film, now) ==
    [description |-> <<"F", "i", "l", "m", ":", " ">> \o film.title,
     pub_date |-> IF IsSome(film.release_date) THEN Some(now) ELSE None]

\* (description, pub_date) of a film; now is what chrono::Utc::now()
\* .to_rfc2822() returns
film_description_and_pub_date(film, now) ==
    LET quote == <<"\"">>
        description_parts ==
               (IF IsSome(film.synopsis) THEN <<film.synopsis[1]>> ELSE <<>>)
            \o (IF IsSome(film.cast) THEN <<<<"C", "a", "s", "t", ":", " ">> \o film.cast[1]>> ELSE <<>>)
            \o (IF IsSome(film.release_date)
                THEN <<<<"D", "a", "t", "a", ":", " ">> \o film.release_date[1]>> ELSE <<>>)
            \o (IF IsSome(film.running_time)
                THEN <<<<"D", "u", "r", "a", "t", "a", ":", " ">> \o ToDecimal(film.running_time[1]) \o <<" ", "m", "i", "n", "u", "t", "i">>>>
                ELSE <<>>)
            \o (IF IsSome(film.poster_url)
                THEN <<<<"<", "i", "m", "g", " ", "s", "r", "c", "=">> \o quote \o film.poster_url[1] \o quote
                       \o <<" ", "a", "l", "t", "=">> \o quote \o <<"P", "o", "s", "t", "e", "r">> \o quote \o <<" ", "/", ">">>>>
                ELSE <<>>)
            \o (IF IsSome(film.showtimes) /\ film.showtimes[1] # <<>>
                THEN <<<<"O", "r", "a", "r", "i", ":", " ">> \o Join(film.showtimes[1], <<",", " ">>)>> ELSE <<>>)
        description == IF description_parts = <<>> THEN <<"F", "i", "l", "m", ":", " ">> \o film.title
                       ELSE Join(description_parts, <<"<", "b", "r", "/", ">">> \o <<"\n">>)
        pub_date == IF IsSome(film.release_date)
                       /\ (\/ Contains(film.release_date[1], <<"F", "e", "b", "b", "r", "a", "i", "o">>)
                           \/ Contains(film.release_date[1], <<"G", "e", "n", "n", "a", "i", "o">>)
                           \/ Contains(film.release_date[1], <<"M", "a", "r", "z", "o">>))
                    THEN Some(now) ELSE None
    IN  [description |-> description, pub_date |-> pub_date]

\* generate_rss with the GUID taken from the title
generate_rss_guid_of_title(films, now) ==
    [items |-> [i \in DOMAIN films |->
        [title |-> Some(films[i].title), link |-> Some(films[i].url),
         description |-> Some(film_description_and_pub_date(films[i], now).description),
         guid |-> Some([value |-> films[i].title, permalink |-> TRUE]),
         pub_date |-> film_description_and_pub_date(films[i], now).pub_date,
         categories |-> <<>>]]]

\* the channel generate_rss hands to write_to: one item per film (the
\* title, link and description of the channel are left out)
generate_rss(films, now) ==
    [items |-> [i \in DOMAIN films |->
        LET film == films[i]
            dp == film_description_and_pub_date(film, now)
            guid == [value |-> film.url, permalink |-> TRUE]
        IN  [title |-> Some(film.title), link |-> Some(film.url),
             description |-> Some(dp.description), guid |-> Some(guid),
             pub_date |-> dp.pub_date, categories |-> <<>>]]]

\* the vector a nested loop fills: the elements of the inner sequences, in
\* order
RECURSIVE Flatten(_)
Flatten(seqs) == IF seqs = <<>> THEN <<>> ELSE Head(seqs) \o Flatten(Tail(seqs))

\* generate_rss_merged with the category of every item named after the
\* first source
generate_rss_merged_first_name(sources, now) ==
    [items |-> Flatten([k \in DOMAIN sources |->
        [i \in DOMAIN sources[k].films |->
            LET film == sources[k].films[i]
                dp == film_description_and_pub_date(film, now)
            IN  [title |-> Some(film.title), link |-> Some(film.url),
                 description |-> Some(dp.description),
                 guid |-> Some([value |-> film.url, permalink |-> TRUE]),
                 pub_date |-> dp.pub_date,
                 categories |-> <<[name |-> sources[1].name, domain |-> None]>>]]])]

\* the channel generate_rss_merged hands to write_to
generate_rss_merged(sources, now) ==
    [items |-> Flatten([k \in DOMAIN sources |->
        LET category == [name |-> sources[k].name, domain |-> None]
        IN  [i \in DOMAIN sources[k].films |->
                LET film == sources[k].films[i]
                    dp == film_description_and_pub_date(film, now)
                    guid == [value |-> film.url, permalink |-> TRUE]
                IN  [title |-> Some(film.title), link |-> Some(film.url),
                     description |-> Some(dp.description), guid |-> Some(guid),
                     pub_date |-> dp.pub_date, categories |-> <<category>>]]])]

(* ---------------------------------------------------------------------- *)
(* Parsing of detail pages: showtime phrases and running times             *)
(* ---------------------------------------------------------------------- *)
\* most text lines of a PortoAstra page
MaxLines == 4
\* most showtime items of a Trieste page
MaxItems == 3
\* most time entries under one date of a Cristallo page
MaxTimes == 2

\* str::split_whitespace
RECURSIVE SplitWhitespace(_)
SplitWhitespace(s) ==
    LET t == TrimStartMatches(s, " ")
        n == IF Contains(t, <<" ">>) THEN Find(t, <<" ">>) - 1 ELSE Len(t)
    IN  IF t = <<>> THEN <<>>
        ELSE <<SubSeq(t, 1, n)>> \o SplitWhitespace(SubSeq(t, n + 1, Len(t)))

\* ----- porto_astra.rs -----
\* line.trim().trim_matches('*').trim()
DayClean(line) == Trim(TrimStartMatches(TrimEndMatches(Trim(line), "*"), "*"))

is_day_line(line) ==
    LET s == DayClean(line)
        \* str::len, in bytes: an accented letter takes two
        ByteLen(t) == Len(t) + Cardinality({i \in DOMAIN t : t[i] = "ì"})
    IN  /\ \E p \in {<<"D", "o", "m", "e", "n", "i", "c", "a", " ">>, <<"L", "u", "n", "e", "d", "ì", " ">>, <<"M", "a", "r", "t", "e", "d", "ì", " ">>, <<"M", "e", "r", "c", "o", "l", "e", "d", "ì", " ">>,
                     <<"G", "i", "o", "v", "e", "d", "ì", " ">>, <<"V", "e", "n", "e", "r", "d", "ì", " ">>, <<"S", "a", "b", "a", "t", "o", " ">>} : StartsWith(s, p)
        /\ ByteLen(s) <= 20
        /\ Contains(s, <<"/">>)

\* the scan from position i (1-based) of the bytes b of the line
parse_time_tokens(line) ==
    LET RECURSIVE From(_, _)
        From(b, i) ==
            IF i > Len(b) THEN <<>>
            ELSE IF ~IsAsciiDigit(b[i]) THEN From(b, i + 1)
            ELSE LET dot == i + DigitRunToEnd(SubSeq(b, i, Len(b)))
                 IN  IF dot <= Len(b) /\ b[dot] = "."
                     THEN IF dot + 2 <= Len(b) /\ IsAsciiDigit(b[dot + 1]) /\ IsAsciiDigit(b[dot + 2])
                          THEN LET token == SubSeq(b, i, dot + 2)
                               IN  (IF Len(token) >= 4 /\ Len(token) <= 5 THEN <<token>> ELSE <<>>)
                                       \o From(b, dot + 3)
                          ELSE From(b, dot + 1)
                     ELSE From(b, dot)
    IN  From(line, 1)

\* the showtimes block of PortoAstraScraper::fetch_films; slicing with
\* start > end panics
PortoAstraShowtimes(all_text) ==
    LET \* Iterator::position, 0-based
        position(P(_)) ==
            IF \E i \in DOMAIN all_text : P(all_text[i])
            THEN Some((CHOOSE i \in DOMAIN all_text :
                          P(all_text[i]) /\ \A j \in 1..(i - 1) : ~P(all_text[j])) - 1)
            ELSE None
        orari_start == position(LAMBDA l : Contains(l, <<"O", "R", "A", "R", "I">>))
        orari_end == position(LAMBDA l : Contains(l, <<"A", "L", "T", "R", "I", " ", "F", "I", "L", "M">>)
                                          \/ Contains(l, <<"A", "r", "t", "i", "c", "o", "l", "i", " ", "c", "o", "r", "r", "e", "l", "a", "t", "i">>))
        start == IF IsSome(orari_start) THEN orari_start[1] ELSE 0
        end == IF IsSome(orari_end) THEN orari_end[1] ELSE Len(all_text)
        \* format!("{} ore {}", d, time_buf.join(", "))
        phrase(d, time_buf) == d \o <<" ", "o", "r", "e", " ">> \o Join(time_buf, <<",", " ">>)
        \* `for line in orari_slice` and the flush after it
        RECURSIVE Loop(_, _, _, _)
        Loop(orari_slice, showtimes_vec, time_buf, last_day) ==
            IF orari_slice = <<>>
            THEN IF IsSome(last_day) /\ time_buf # <<>>
                 THEN Append(showtimes_vec, phrase(last_day[1], time_buf))
                 ELSE showtimes_vec
            ELSE LET line == Head(orari_slice)
                 IN  IF is_day_line(line)
                     THEN IF IsSome(last_day) /\ time_buf # <<>>
                          THEN Loop(Tail(orari_slice),
                                    Append(showtimes_vec, phrase(last_day[1], time_buf)),
                                    <<>>, Some(DayClean(line)))
                          ELSE Loop(Tail(orari_slice), showtimes_vec, time_buf,
                                    Some(DayClean(line)))
                     ELSE Loop(Tail(orari_slice), showtimes_vec,
                               time_buf \o parse_time_tokens(line), last_day)
    IN  IF start > end
        THEN [panic |-> TRUE, start |-> start, end |-> end]
        ELSE LET showtimes_vec == Loop(SubSeq(all_text, start + 1, end), <<>>, <<>>, None)
             IN  [panic |-> FALSE, start |-> start, end |-> end,
                  showtimes |-> IF showtimes_vec = <<>> THEN None ELSE Some(showtimes_vec)]

\* ----- cinema_trieste_scraper.rs -----
\* str::replacen(from, to, 1): the first occurrence only
ReplaceFirst(s, from, to) ==
    [i \in DOMAIN s |-> IF s[i] = from /\ \A j \in 1..(i - 1) : s[j] # from THEN to ELSE s[i]]

\* str::replace(from, to) for single characters: every occurrence
Replace(s, from, to) == [i \in DOMAIN s |-> IF s[i] = from THEN to ELSE s[i]]

\* text.chars().all(|c| c.is_ascii_digit() || c == '.' || c == ':')
IsTimeText(text) == \A i \in DOMAIN text : IsAsciiDigit(text[i]) \/ text[i] \in {".", ":"}

\* a digit and a fragment of an Italian month name
IsDateText(text) ==
    /\ \E i \in DOMAIN text : IsAsciiDigit(text[i])
    /\ \E m \in {<<"b", "r", "a", "i", "o">>, <<"e", "n", "n", "a">>, <<"a", "r", "z", "o">>, <<"r", "i", "l", "e">>, <<"a", "g", "g", "i", "o">>, <<"u", "g", "n", "o">>, <<"u", "g", "l", "i", "o">>,
                 <<"o", "s", "t", "o">>, <<"e", "m", "b", "r", "e">>, <<"o", "b", "r", "e">>} : Contains(text, m)

\* the showtimes of one div of a Trieste film page
TriesteShowtimes(items0) ==
    LET \* `for text in &items`
        RECURSIVE Loop(_, _, _)
        Loop(items, current_date, showtimes) ==
            IF items = <<>> THEN showtimes
            ELSE LET text == Head(items)
                     formatted == current_date \o <<" ", "o", "r", "e", " ">> \o Replace(text, ".", ":")
                 IN  IF text = <<>> \/ StartsWith(text, <<"v", ".">>) \/ StartsWith(text, <<"I", "n", "g", "r", "e", "s", "s", "o">>)
                     THEN Loop(Tail(items), current_date, showtimes)
                     ELSE IF IsTimeText(text)
                     THEN IF current_date # <<>> /\ \A i \in DOMAIN showtimes : showtimes[i] # formatted
                          THEN Loop(Tail(items), current_date, Append(showtimes, formatted))
                          ELSE Loop(Tail(items), current_date, showtimes)
                     ELSE IF IsDateText(text)
                     THEN Loop(Tail(items), text, showtimes)
                     ELSE Loop(Tail(items), current_date, showtimes)
        has_date == \E i \in DOMAIN items0 : IsDateText(items0[i])
        has_time == \E i \in DOMAIN items0 : IsTimeText(items0[i])
    IN  IF has_date /\ has_time THEN Loop(items0, <<>>, <<>>) ELSE <<>>

\* ----- rassegne.rs -----
\* a u32 is kept as two 16-bit limbs, value hi * 65536 + lo
Limb == 65536
U32(n) == [hi |-> n \div Limb, lo |-> n % Limb]

\* str::parse::<u32>: an optional '+', then digits; Err on anything else
\* and on a value above u32::MAX
ParseU32(tok) ==
    LET digits0 == IF tok # <<>> /\ tok[1] = "+" THEN Tail(tok) ELSE tok
        \* checked acc * 10 + digit over the digits, None on overflow
        RECURSIVE Digits(_, _)
        Digits(digits, acc) ==
            IF digits = <<>> THEN Some(acc)
            ELSE LET d == CHOOSE v \in 0..9 : ToDecimal(v) = <<Head(digits)>>
                     lo == acc.lo * 10 + d
                     hi == acc.hi * 10 + lo \div Limb
                 IN  IF hi >= Limb THEN None
                     ELSE Digits(Tail(digits), [hi |-> hi, lo |-> lo % Limb])
    IN  IF digits0 = <<>> \/ ~AllDigits(digits0) THEN None ELSE Digits(digits0, U32(0))

\* u32::saturating_mul by a small factor
saturating_mul(a, k) ==
    LET lo == a.lo * k
        hi == a.hi * k + lo \div Limb
    IN  IF hi >= Limb THEN [hi |-> Limb - 1, lo |-> Limb - 1] ELSE [hi |-> hi, lo |-> lo % Limb]

\* the sum forgotten: the first operand as it is
saturating_add_dropped(a, b) == a

\* u32::saturating_add
saturating_add(a, b) ==
    LET lo == a.lo + b.lo
        hi == a.hi + b.hi + lo \div Limb
    IN  IF hi >= Limb THEN [hi |-> Limb - 1, lo |-> Limb - 1] ELSE [hi |-> hi, lo |-> lo % Limb]

\* the running_time a "durata" line leaves: the branch of the line loop
RassegneRunningTime(line) ==
    LET \* `for (idx, tok) in tokens.iter().enumerate()`, idx 1-based
        RECURSIVE Loop(_, _, _, _)
        Loop(tokens, idx, hours, minutes) ==
            IF idx > Len(tokens) THEN [hours |-> hours, minutes |-> minutes]
            ELSE LET n == ParseU32(tokens[idx])
                 IN  IF IsSome(n) /\ idx + 1 <= Len(tokens) /\ StartsWith(tokens[idx + 1], <<"o", "r", "e">>)
                     THEN Loop(tokens, idx + 1, n[1], minutes)
                     ELSE IF IsSome(n) /\ idx + 1 <= Len(tokens)
                             /\ StartsWith(tokens[idx + 1], <<"m", "i", "n">>)
                     THEN Loop(tokens, idx + 1, hours, n[1])
                     ELSE Loop(tokens, idx + 1, hours, minutes)
    IN  IF StartsWith([i \in DOMAIN line |-> ToLower(line[i])], <<"d", "u", "r", "a", "t", "a">>) /\ Contains(line, <<":">>)
        THEN LET rest == SubSeq(line, Find(line, <<":">>) + 1, Len(line))
                 hm == Loop(SplitWhitespace(rest), 1, U32(0), U32(0))
                 total == saturating_add(saturating_mul(hm.hours, 60), hm.minutes)
             IN  IF total # U32(0) THEN Some(total) ELSE None
        ELSE None

\* the showtime phrases of one showtime widget with its date label
RassegneShowtimes(date, texts) ==
    LET \* the first token with a digit and a '.', "" when there is none
        time_token(text) ==
            LET toks == SplitWhitespace(text)
                looks(tok) == (\E i \in DOMAIN tok : IsAsciiDigit(tok[i])) /\ Contains(tok, <<".">>)
            IN  IF \E k \in DOMAIN toks : looks(toks[k])
                THEN toks[CHOOSE k \in DOMAIN toks :
                            looks(toks[k]) /\ \A j \in 1..(k - 1) : ~looks(toks[j])]
                ELSE <<>>
    IN  IF date = <<>> THEN <<>>
        ELSE Flatten([k \in DOMAIN texts |->
                IF texts[k] = <<>> \/ time_token(texts[k]) = <<>> THEN <<>>
                ELSE <<date \o <<" ", "o", "r", "e", " ">> \o time_token(texts[k])>>])

\* ----- space_cinema.rs -----
\* `runningTime as u32` of an i32: the value modulo 2^32
AsU32(n) ==
    IF n >= 0 THEN U32(n)
    ELSE LET m == (n + 2147483647) + 1
         IN  [hi |-> m \div Limb + 32768, lo |-> m % Limb]

(* ---------------------------------------------------------------------- *)
(* Dispatch on the scraper (the CinemaScraper trait, lib.rs)               *)
(* ---------------------------------------------------------------------- *)

\* outcome of the part of fetch_films between the listing response and the
\* detail loop: enter the loop over queue with the vector initial (found
\* are the candidate URLs), return Ok(vec![]) early, return Ok(films), or
\* return Err
Loop(queue, initial, found) ==
    [kind |-> "loop", queue |-> queue, films |-> initial, found |-> found]
ReturnEmpty == [kind |-> "return", films |-> <<>>]
ReturnOk(fs) == [kind |-> "return", films |-> fs]
ReturnErr == [kind |-> "err"]

\* if film_urls.is_empty() { return Ok(Vec::new()); }
LoopUnlessEmpty(urls) == IF urls = <<>> THEN ReturnEmpty ELSE Loop(urls, <<>>, urls)

Urls(fs) == [i \in 1..Len(fs) |-> fs[i].url]

Bodies(s) ==
    CASE s = "Trieste" -> (SeqsUpTo({<<"/", "f", "i", "l", "m", "/", "b", "_", "2", "0", "2", "6", "0", "2", "0", "9", "1", "7", "0", "0", "/">>, <<"/", "f", "i", "l", "m", "/", "b", "_", "2", "0", "2", "6", "0", "2", "0", "9", "1", "8", "0", "1", "/">>, <<" ", "/", "f", "i", "l", "m", "/", "a", "/">>, <<"/", "a", "b", "o", "u", "t", "/">>}, MaxLinks))
      [] s = "Space" -> ({([valid |-> FALSE])} \cup {[valid |-> TRUE, result |-> r] : r \in SeqsUpTo(([filmTitle : {<<>>, <<"T">>}, filmUrl : {<<>>, <<"/", "f", "i", "l", "m", "/", "u", "1">>}, posterImageSrc : {<<"/", "p", ".", "j", "p", "g">>}]), MaxLinks)})
      [] s = "Edera" -> ({[timetable |-> FALSE, links |-> <<>>]} \cup {[timetable |-> TRUE, links |-> l] : l \in SeqsUpTo({[href |-> Some(<<"/", "f", "1">>), strong |-> Some(<<" ", "T", " ">>)], [href |-> Some(<<"/", "f", "2">>), strong |-> Some(<<"T">>)], [href |-> Some(<<"/", "f", "3">>), strong |-> Some(<<"T">>)], [href |-> None, strong |-> Some(<<"T">>)], [href |-> Some(<<"/", "f", "1">>), strong |-> None]}, MaxLinks)})
      [] s = "Padova" -> ({([valid |-> FALSE])} \cup {[valid |-> TRUE, titoli |-> t] : t \in SeqsUpTo(([titolo : {<<"A", "b">>, <<" ", "a", "b">>, <<" ">>}, categoria_film : {<<"y">>}] \cup {[titolo |-> <<"A", "b">>, categoria_film |-> <<"n">>]}), MaxLinks)})
      [] s = "Cinemazero" -> (SeqsUpTo({<<"/", "f", "i", "l", "m", "/", "b">>, <<" ", "f", "i", "l", "m", "/", "a">>, <<"/", "f", "i", "l", "m", "/", "c">>, <<"h", "t", "t", "p", "s", ":", "/", "/", "t", ".", "1", "8", "t", "i", "c", "k", "e", "t", "s", ".", "i", "t", "/", "f", "i", "l", "m", "/", "1">>}, MaxLinks))
      [] s = "Pizzuti" -> (SeqsUpTo({[text |-> <<"C", "i", "n", "e", "f", "o", "r", "u", "m", " ", "2", "0", "2", "6">>, ancestors |-> << <<<<"/", "f", "i", "l", "m", "/", "a">>, <<"/", "f", "i", "l", "m", "/", "b">>, <<"/", "f", "i", "l", "m", "/", "a">>, <<"/", "f", "i", "l", "m", "/", "c">>>> >>], [text |-> <<"N", "e", "w", "s">>, ancestors |-> << <<<<"/", "f", "i", "l", "m", "/", "n">>>> >>], [text |-> <<"C", "I", "N", "E", "F", "O", "R", "U", "M">>, ancestors |-> << <<<<"/", "a", "b", "o", "u", "t">>>>, <<<<"/", "f", "i", "l", "m", "/", "c">>, <<"/", "a", "b", "o", "u", "t">>>> >>]}, MaxLinks))
      [] s = "Berlinale" -> (SeqsUpTo({[tag |-> "a", text |-> <<"/", "e", "n", "/", "2", "0", "2", "6", "/", "p", "r", "o", "g", "r", "a", "m", "m", "e", "/", "2", "0", "2", "6", "0", "8", "3", "3", "3", ".", "h", "t", "m", "l">>], [tag |-> "a", text |-> <<"/", "e", "n", "/", "2", "0", "2", "6", "/", "p", "r", "o", "g", "r", "a", "m", "m", "e", "/", "2", "0", "2", "6", "0", "1", "1", "1", "1", ".", "h", "t", "m", "l">>], [tag |-> "a", text |-> <<"/", "e", "n", "/", "p", "r", "o", "g", "r", "a", "m", "m", "e", "/", "o", "n", "-", "s", "a", "l", "e", ".", "h", "t", "m", "l">>], [tag |-> "script", text |-> <<"\\", "/", "p", "r", "o", "g", "r", "a", "m", "m", "e", "\\", "/", "2", "0", "2", "6", "0", "5", "5", "5", "5", "\\">>]}, MaxLinks))
      [] s = "NewBev" -> (SeqsUpTo({[href |-> Some(<<"/", "p", "r", "o", "g", "r", "a", "m", "/", "a", "/">>), title |-> <<"A">>, showtime |-> <<"M", "o", "n", " ", "1">>, poster |-> None], [href |-> Some(<<"/", "p", "r", "o", "g", "r", "a", "m", "/", "a">>), title |-> <<"A", "2">>, showtime |-> <<"T", "u", "e", " ", "2">>, poster |-> Some(<<"/", "i", ".", "j", "p", "g">>)], [href |-> Some(<<"/", "p", "r", "o", "g", "r", "a", "m", "/", "b">>), title |-> <<"B">>, showtime |-> <<"M", "o", "n", " ", "1">>, poster |-> None], [href |-> Some(<<"/", "p", "r", "o", "g", "r", "a", "m", "/", "c">>), title |-> <<"C">>, showtime |-> <<"M", "o", "n", " ", "1">>, poster |-> None], [href |-> Some(<<"/", "p", "r", "o", "g", "r", "a", "m", "/", "d">>), title |-> <<>>, showtime |-> <<"M", "o", "n", " ", "1">>, poster |-> None]}, MaxLinks))
      [] s = "Cinergia" -> (SeqsUpTo({[tag |-> "a", text |-> <<"/", "f", "i", "l", "m", "/", "1", "0", "0">>], [tag |-> "a", text |-> <<"/", "f", "i", "l", "m", "/", "1", "0", "0", "?", "d", "=", "2">>], [tag |-> "a", text |-> <<"h", "t", "t", "p", "s", ":", "/", "/", "c", "o", "n", "e", "g", "l", "i", "a", "n", "o", "c", "i", "n", "e", "r", "g", "i", "a", ".", "1", "8", "t", "i", "c", "k", "e", "t", "s", ".", "i", "t", "/", "f", "i", "l", "m", "/", "2", "0", "0", "/">>], [tag |-> "a", text |-> <<"/", "f", "i", "l", "m", "/", "a", "b", "c">>], [tag |-> "script", text |-> <<"g", "o", "(", "'", "/", "f", "i", "l", "m", "/", "3", "0", "0", "'", ")">>]}, MaxLinks))
      [] s = "PortoAstra" -> (SeqsUpTo({<<"/", "f", "i", "l", "m", "/", "1", "0", "0">>, <<"/", "f", "i", "l", "m", "/", "1", "0", "0", "?", "d", "=", "2">>, <<"/", "f", "i", "l", "m", "/", "2", "0", "0">>, <<"/", "i", "n", "f", "o">>}, MaxLinks))
      [] s = "Rassegne" -> (SeqsUpTo({<<"/", "m", "o", "v", "i", "e", "/", "b">>, <<"h", "t", "t", "p", "s", ":", "/", "/", "w", "w", "w", ".", "c", "i", "n", "e", "m", "a", "c", "r", "i", "s", "t", "a", "l", "l", "o", ".", "c", "o", "m", "/", "m", "o", "v", "i", "e", "/", "b">>, <<"/", "m", "o", "v", "i", "e", "/", "a", " ">>, <<"/", "m", "o", "v", "i", "e", "/", "c">>}, MaxLinks))
      [] s \in {"EderaRassegne", "RassegneEdera"} -> (SeqsUpTo({<<"/", "r", "a", "s", "s", "e", "g", "n", "e", "/", "b", ".", "h", "t", "m", "l">>, <<"/", "r", "a", "s", "s", "e", "g", "n", "e", "/", "a", ".", "h", "t", "m", "l">>, <<"/", "r", "a", "s", "s", "e", "g", "n", "e", "/", "c", ".", "h", "t", "m", "l">>, <<"/", "x", "/", "r", "a", "s", "s", "e", "g", "n", "e", "/", "r", "a", "s", "s", "e", "g", "n", "e", ".", "h", "t", "m", "l">>}, MaxLinks))

\* the set of outcomes (more than one when the code iterates a hash
\* container, whose order is unspecified)
Discovery(s, b) ==
    CASE s = "Trieste" -> {Loop(TriesteFilmUrls(b), <<>>, TriesteFilmUrls(b))}
      [] s = "Space" -> {IF b.valid THEN ReturnOk(SpaceFilms(b)) ELSE ReturnErr}
      [] s = "Edera" ->
            {IF ~b.timetable THEN ReturnErr
             ELSE LET fs == EderaCollect(b.links, {}, <<>>)
                  IN  Loop([i \in 1..Len(fs) |-> i], fs, Urls(fs))}
      [] s = "Padova" -> {IF b.valid THEN ReturnOk(PadovaFilms(b.titoli, <<>>)) ELSE ReturnErr}
      [] s = "Cinemazero" -> {LoopUnlessEmpty(CinemazeroCollect(b, {}, <<>>))}
      [] s = "Pizzuti" -> {LoopUnlessEmpty(PizzutiFilmUrls(b, {}))}
      [] s = "Berlinale" -> {LoopUnlessEmpty(extract_film_urls(b))}
      [] s = "NewBev" ->
            IF parse_schedule(b) = <<>> THEN {ReturnEmpty}
            ELSE {Loop(unique, <<>>, Urls(unique)) :
                     unique \in Orderings(MergeByUrl(parse_schedule(b), {}))}
      [] s = "Cinergia" ->
            LET from_doc == extract_film_ids(b)
                film_ids == IF from_doc = <<>> THEN extract_film_ids_from_raw(RawHtml(b))
                            ELSE from_doc
            IN  {IF film_ids = <<>> THEN ReturnEmpty
                 ELSE Loop(film_ids, <<>>,
                           [i \in 1..Len(film_ids) |-> CinergiaFilmUrl(film_ids[i])])}
      [] s = "PortoAstra" ->
            IF PortoAstraUrlSet(b) = {} THEN {ReturnEmpty}
            ELSE {Loop(urls, <<>>, urls) : urls \in Orderings(PortoAstraUrlSet(b))}
      [] s = "Rassegne" -> {LoopUnlessEmpty(RassegneCollect(b, {}, <<>>))}
      [] s \in {"EderaRassegne", "RassegneEdera"} ->
            {LoopUnlessEmpty(EderaRassegneCollect(b, {}, <<>>))}

Pages(s) ==
    CASE s = "Trieste" -> DetailPages
      [] s = "Edera" -> ({[status |-> st, container |-> TRUE, title |-> None, poster |-> p] : st \in {"ok", "http_err"}, p \in PosterSrcs} \cup {NoPage("net_err"), NoPage("body_err")})
      [] s = "Cinemazero" -> ({p \in [status : {"ok"}, container : {TRUE}, title : TitleTexts, first_text : {None, Some(<<"X">>)}, poster : PosterSrcs] : (IsSome(p.title) /\ p.title[1] # <<>>) => IsSome(p.first_text)} \cup FailedPages)
      [] s = "Pizzuti" -> DetailPages
      [] s = "Berlinale" -> ([status : {"ok"}, container : {TRUE}, title : {None, Some(<<>>), Some(<<"T", " ", "|", " ", "B", "e", "r", "l", "i", "n", "a", "l", "e">>), Some(<<"T">>)}, poster : PosterSrcs] \cup FailedPages)
      [] s = "NewBev" -> ([status : {"ok"}, container : {TRUE}, title : {None}, poster : PosterSrcs] \cup FailedPages)
      [] s = "Cinergia" -> ([status : {"ok"}, container : {TRUE}, title : TitleTexts, poster : PosterSrcs] \cup FailedPages)
      [] s = "PortoAstra" -> ([status : {"ok"}, container : {TRUE}, title : TitleTexts, bold : {None, Some(<<"B">>)}, poster : PosterSrcs] \cup FailedPages)
      [] s = "Rassegne" -> ({p \in [status : {"ok"}, container : BOOLEAN, info_line : {None, Some(<<"I">>)}, title : {None, Some(<<"T">>)}, poster : PosterSrcs] : ~p.container => p.info_line = None} \cup FailedPages)
      [] s = "EderaRassegne" -> ([status : {"ok"}, container : {TRUE}, title : TitleTexts, poster : {None}] \cup FailedPages)
      [] s = "RassegneEdera" -> ([status : {"ok"}, container : {TRUE}, title : TitleTexts, poster : {None}, links : {<<>>, <<<<"/", "f", "i", "l", "m", "/", "x">>>>, <<<<"/", "f", "i", "l", "m", "/", "x">>, <<"/", "r", "a", "s", "s", "e", "g", "n", "e", "/", "z", ".", "h", "t", "m", "l">>, <<"/", "i", "-", "f", "i", "l", "m", "-", "y">>, <<" ", "/", "f", "i", "l", "m", "/", "x">>, <<"/", "c", "h", "i", "-", "s", "i", "a", "m", "o">>>>}] \cup FailedPages)

(* ---------------------------------------------------------------------- *)
(* State of one fetch_films call                                           *)
(* ---------------------------------------------------------------------- *)
VARIABLES
    scraper,        \* the scraper whose fetch_films is running
    pc,             \* "start", "listing", "loop", "detail", "inner_loop",
                    \* "inner", "done"
    body,           \* the listing body, once read
    film_urls,      \* the candidates the detail loop has still to visit
    films,          \* the result vector
    result,         \* "none", "Ok" (with films) or "Err"
    request,        \* the HTTP requests sent and not yet answered
    title,          \* RassegneScraperEdera: title of the current rassegna
    inner_urls,     \* RassegneScraperEdera: film pages still to visit
    inner_infos,    \* RassegneScraperEdera: posters of the visited ones
    listing_status, \* history: status of the listing response
    discovered,     \* history: the candidate URLs found by discovery
    outcomes        \* history: what each visited detail page was like

fetchVars == <<scraper, pc, body, film_urls, films, result, request, title,
               inner_urls, inner_infos, listing_status, discovered, outcomes>>

\* State of one run of main (main.rs)
VARIABLES
    mpc,            \* "start", "group", "warm_up", "fetch", "generate",
                    \* "write", "done"
    feed_filter,    \* Args::parse().feed
    group,          \* index of the feed group main is at
    venue,          \* index, within the group, of the next venue to fetch
    sources,        \* the (venue, films) pairs fetched so far in the group
    written,        \* the feeds whose file has been written, in order
    rss_xml,        \* the sources of the document built last
    stderr,         \* the venues an eprintln! reported
    exit_status,    \* "none", "Ok" or "Err": what main returned
    failed,         \* history: the scraper operations that returned Err
    io_failed       \* history: a local operation (mkdir, client, rss, write)
                    \* returned Err

mainVars == <<mpc, feed_filter, group, venue, sources, written, rss_xml, stderr,
              exit_status, failed, io_failed>>

\* State of the application of canonical_film_key to two URLs
VARIABLES
    kpc,            \* "input" or "done"
    url_a, url_b,   \* the two URLs
    key_a, key_b    \* their canonical keys, once computed

keyVars == <<kpc, url_a, url_b, key_a, key_b>>

\* State of one call of generate_rss or generate_rss_merged (lib.rs)
VARIABLES
    rpc,            \* "input" or "done"
    rss_sources,    \* the (cinema name, films) pairs at hand
    rss_films,      \* generate_rss: the films it was called with
    rss_call,       \* "none", "generate_rss" or "generate_rss_merged"
    channel         \* the channel built, once the call has returned

rssVars == <<rpc, rss_sources, rss_films, rss_call, channel>>

\* one call of a parsing step of a detail page
VARIABLES
    parse_call,     \* the step called: "none" before the choice is made
    parse_arg,      \* its input, a record
    parse_ret       \* None until it returns, then Some(what it returned)

parseVars == <<parse_call, parse_arg, parse_ret>>

vars == <<fetchVars, mainVars, keyVars, rssVars, parseVars>>

\* one iteration of the detail loop, from the response on
Detail(s, item, page) ==
    CASE s = "Trieste" -> TriesteDetail(item, page)
      [] s = "Edera" -> EderaDetail(films[item], page)
      [] s = "Cinemazero" -> CinemazeroDetail(item, page)
      [] s = "Pizzuti" -> PizzutiDetail(item, page)
      [] s = "Berlinale" -> BerlinaleDetail(item, page)
      [] s = "NewBev" -> NewBevDetail(item, page)
      [] s = "Cinergia" -> CinergiaDetail(item, page)
      [] s = "PortoAstra" -> PortoAstraDetail(item, page)
      [] s = "Rassegne" -> RassegneDetail(item, page)
      [] s = "EderaRassegne" -> EderaRassegneDetail(item, page)
      [] s = "RassegneEdera" -> RassegneEderaDetail(item, page)

\* the URL a queue item is fetched from
ItemUrl(s, item) ==
    CASE s = "Edera" -> films[item].url
      [] s = "NewBev" -> item.url
      [] s = "Cinergia" -> CinergiaFilmUrl(item)
      [] OTHER -> item

\* whether the detail page has something the scraper takes a title from
TitleOnPage(s, page) ==
    CASE s = "Cinemazero" -> (IsSome(page.title) /\ page.title[1] # <<>>) \/ IsSome(page.first_text)
      [] s = "Berlinale" ->
            IsSome(page.title) /\ TrimEndMatchesStr(page.title[1], <<" ", "|", " ", "B", "e", "r", "l", "i", "n", "a", "l", "e">>) # <<>>
      [] s = "PortoAstra" -> (IsSome(page.title) /\ page.title[1] # <<>>) \/ IsSome(page.bold)
      [] s = "Rassegne" ->
            (page.container /\ IsSome(page.info_line)) \/ IsSome(extract_title_fallback(page))
      [] OTHER -> IsSome(page.title) /\ page.title[1] # <<>>

\* classification of a detail response, for the history
PageClass(s, page) ==
    IF page.status # "ok" THEN page.status
    ELSE IF s \in {"Edera", "NewBev"} THEN "loaded"
    ELSE IF s \in {"Trieste", "Pizzuti"} /\ ~page.container THEN "no_container"
    ELSE IF TitleOnPage(s, page) THEN "titled"
    ELSE "untitled"

\* client.get(listing).send()
SendListing ==
    /\ pc = "start"
    /\ pc' = "listing"
    /\ request' = Append(request, [kind |-> "listing"])
    /\ UNCHANGED <<scraper, body, film_urls, films, result, title, inner_urls,
                   inner_infos, listing_status, discovered, outcomes>>
    /\ UNCHANGED <<mainVars, keyVars, rssVars, parseVars>>

\* a listing failure swallowed: Ok with no films instead of the error
ListingFailedSwallowed ==
    /\ pc = "listing"
    /\ \E st \in Statuses \ {"ok"} : listing_status' = st
    /\ request' = Tail(request)
    /\ result' = "Ok"
    /\ pc' = "done"
    /\ UNCHANGED <<scraper, body, film_urls, films, title, inner_urls, inner_infos,
                   discovered, outcomes>>
    /\ UNCHANGED <<mainVars, keyVars, rssVars, parseVars>>

\* .send().await? / .error_for_status()? / .text().await? : any failure of
\* the listing request is returned to the caller
ListingFailed ==
    /\ pc = "listing"
    /\ \E st \in Statuses \ {"ok"} : listing_status' = st
    /\ request' = Tail(request)
    /\ result' = "Err"
    /\ pc' = "done"
    /\ UNCHANGED <<scraper, body, film_urls, films, title, inner_urls, inner_infos,
                   discovered, outcomes>>
    /\ UNCHANGED <<mainVars, keyVars, rssVars, parseVars>>

\* the listing body arrives: discovery
ListingLoaded ==
    /\ pc = "listing"
    /\ \E b \in Bodies(scraper) : \E d \in Discovery(scraper, b) :
        /\ body' = b
        /\ listing_status' = "ok"
        /\ request' = Tail(request)
        /\ CASE d.kind = "loop" ->
                  /\ film_urls' = d.queue
                  /\ films' = d.films
                  /\ discovered' = d.found
                  /\ pc' = "loop"
                  /\ UNCHANGED result
             [] d.kind = "return" ->
                  /\ films' = d.films
                  /\ result' = "Ok"
                  /\ pc' = "done"
                  /\ discovered' = Urls(d.films)
                  /\ UNCHANGED film_urls
             [] d.kind = "err" ->
                  /\ result' = "Err"
                  /\ pc' = "done"
                  /\ UNCHANGED <<film_urls, films, discovered>>
    /\ UNCHANGED <<scraper, title, inner_urls, inner_infos, outcomes>>
    /\ UNCHANGED <<mainVars, keyVars, rssVars, parseVars>>

\* the detail requests of all candidates sent at once
SendDetailFanOut ==
    /\ pc = "loop"
    /\ film_urls # <<>>
    /\ request' = request \o [i \in DOMAIN film_urls |->
                        [kind |-> "detail", url |-> ItemUrl(scraper, film_urls[i])]]
    /\ pc' = "detail"
    /\ UNCHANGED <<scraper, body, film_urls, films, result, title, inner_urls,
                   inner_infos, listing_status, discovered, outcomes>>
    /\ UNCHANGED <<mainVars, keyVars, rssVars, parseVars>>

\* client.get(&url).send().await for the next candidate
SendDetail ==
    /\ pc = "loop"
    /\ film_urls # <<>>
    /\ request' = Append(request, [kind |-> "detail", url |-> ItemUrl(scraper, Head(film_urls))])
    /\ pc' = "detail"
    /\ UNCHANGED <<scraper, body, film_urls, films, result, title, inner_urls,
                   inner_infos, listing_status, discovered, outcomes>>
    /\ UNCHANGED <<mainVars, keyVars, rssVars, parseVars>>

\* the response of the detail request and the rest of the loop body
DetailResponse ==
    /\ pc = "detail"
    /\ \E page \in Pages(scraper) :
        LET o == Detail(scraper, Head(film_urls), page) IN
        /\ outcomes' = Append(outcomes, PageClass(scraper, page))
        /\ request' = Tail(request)
        /\ CASE o.kind = "push" ->
                  /\ films' = Append(films, o.film)
                  /\ film_urls' = Tail(film_urls)
                  /\ pc' = "loop"
                  /\ UNCHANGED <<result, title, inner_urls, inner_infos>>
             [] o.kind = "update" ->
                  /\ films' = [films EXCEPT ![Head(film_urls)] = o.film]
                  /\ film_urls' = Tail(film_urls)
                  /\ pc' = "loop"
                  /\ UNCHANGED <<result, title, inner_urls, inner_infos>>
             [] o.kind = "skip" ->
                  /\ film_urls' = Tail(film_urls)
                  /\ pc' = "loop"
                  /\ UNCHANGED <<films, result, title, inner_urls, inner_infos>>
             [] o.kind = "abort" ->
                  /\ result' = "Err"
                  /\ pc' = "done"
                  /\ UNCHANGED <<films, film_urls, title, inner_urls, inner_infos>>
             [] o.kind = "inner" /\ o.inner_urls # <<>> ->
                  /\ title' = o.title
                  /\ inner_urls' = o.inner_urls
                  /\ inner_infos' = <<>>
                  /\ pc' = "inner_loop"
                  /\ UNCHANGED <<films, film_urls, result>>
             [] o.kind = "inner" /\ o.inner_urls = <<>> ->
                  /\ films' = Append(films, Film(o.title, Head(film_urls), None))
                  /\ film_urls' = Tail(film_urls)
                  /\ pc' = "loop"
                  /\ UNCHANGED <<result, title, inner_urls, inner_infos>>
    /\ UNCHANGED <<scraper, body, listing_status, discovered>>
    /\ UNCHANGED <<mainVars, keyVars, rssVars, parseVars>>

\* RassegneScraperEdera: client.get(&full).send() for the next film page
SendInner ==
    /\ pc = "inner_loop"
    /\ inner_urls # <<>>
    /\ request' = Append(request, [kind |-> "inner", url |-> Head(inner_urls)])
    /\ pc' = "inner"
    /\ UNCHANGED <<scraper, body, film_urls, films, result, title, inner_urls,
                   inner_infos, listing_status, discovered, outcomes>>
    /\ UNCHANGED <<mainVars, keyVars, rssVars, parseVars>>

\* RassegneScraperEdera: the response of an inner request; after the last
\* one the Film of the rassegna is pushed
InnerResponse ==
    /\ pc = "inner"
    /\ \E page \in ([status : {"ok"}, container : {TRUE}, title : {None}, poster : PosterSrcs] \cup FailedPages) :
        /\ request' = Tail(request)
        /\ IF page.status # "ok"
           THEN /\ result' = "Err"
                /\ pc' = "done"
                /\ outcomes' = Append(outcomes, page.status)
                /\ UNCHANGED <<films, film_urls, title, inner_urls, inner_infos>>
           ELSE IF Len(inner_urls) > 1
           THEN /\ inner_urls' = Tail(inner_urls)
                /\ inner_infos' = Append(inner_infos, InnerPoster(page))
                /\ pc' = "inner_loop"
                /\ UNCHANGED <<films, film_urls, result, title, outcomes>>
           ELSE /\ films' = Append(films,
                        Film(title, Head(film_urls),
                             FirstPoster(Append(inner_infos, InnerPoster(page)))))
                /\ film_urls' = Tail(film_urls)
                /\ inner_urls' = <<>>
                /\ inner_infos' = <<>>
                /\ title' = <<>>
                /\ pc' = "loop"
                /\ UNCHANGED <<result, outcomes>>
    /\ UNCHANGED <<scraper, body, listing_status, discovered>>
    /\ UNCHANGED <<mainVars, keyVars, rssVars, parseVars>>

\* Ok(films) after the loop
Return ==
    /\ pc = "loop"
    /\ film_urls = <<>>
    /\ result' = "Ok"
    /\ pc' = "done"
    /\ UNCHANGED <<scraper, body, film_urls, films, request, title, inner_urls,
                   inner_infos, listing_status, discovered, outcomes>>
    /\ UNCHANGED <<mainVars, keyVars, rssVars, parseVars>>

NextFetch == SendListing \/ ListingFailed \/ ListingLoaded \/ SendDetail
             \/ DetailResponse \/ SendInner \/ InnerResponse \/ Return

(* ---------------------------------------------------------------------- *)
(* main.rs: the run over the feed groups                                   *)
(* ---------------------------------------------------------------------- *)
\* enum Feed

\* the blocks of main in program order, each with the venues it fetches
FeedGroups == <<
    [feed |-> "Multisala",
     venues |-> <<"Space", "Edera", "Manzoni", "Cinergia", "Cinemazero">>],
    [feed |-> "Padova", venues |-> <<"Rex", "PortoAstra">>],
    [feed |-> "Trieste", venues |-> <<"Trieste">>],
    [feed |-> "Rassegne", venues |-> <<"Cristallo", "EderaRassegne", "Pizzuti">>],
    [feed |-> "Berlinale", venues |-> <<"Berlinale">>],
    [feed |-> "Tarantino", venues |-> <<"NewBev">> ] >>

\* the venue whose warm_up main calls
\* the venue whose fetch error main reports with eprintln!

\* Result::unwrap_or_default
unwrap_or_default(r) == IF r.ok THEN r.films ELSE <<>>

\* feed_filter.is_none() || feed_filter.as_ref() == Some(&Feed::X)
Selected(g) == feed_filter = None \/ feed_filter = Some(FeedGroups[g].feed)

\* main returns the Err of a `?`
MainErr ==
    /\ exit_status' = "Err"
    /\ mpc' = "done"

\* fs::create_dir_all("docs/feeds")?, Client::builder().build()? and
\* Args::parse()
Start ==
    /\ mpc = "start"
    /\ \E ok \in BOOLEAN :
        IF ok
        THEN /\ \E f \in {None} \cup {Some(FeedGroups[g].feed) : g \in DOMAIN FeedGroups} : feed_filter' = f
             /\ mpc' = "group"
             /\ UNCHANGED <<exit_status, io_failed>>
        ELSE /\ MainErr
             /\ io_failed' = TRUE
             /\ UNCHANGED feed_filter
    /\ UNCHANGED <<group, venue, sources, written, rss_xml, stderr, failed>>
    /\ UNCHANGED <<fetchVars, keyVars, rssVars, parseVars>>

\* the if at the head of a feed group's block
EnterGroup ==
    /\ mpc = "group"
    /\ group <= Len(FeedGroups)
    /\ IF Selected(group)
       THEN /\ mpc' = IF ("Space") = FeedGroups[group].venues[1] THEN "warm_up" ELSE "fetch"
            /\ venue' = 1
            /\ sources' = <<>>
            /\ UNCHANGED group
       ELSE /\ group' = group + 1
            /\ UNCHANGED <<mpc, venue, sources>>
    /\ UNCHANGED <<feed_filter, written, rss_xml, stderr, exit_status, failed, io_failed>>
    /\ UNCHANGED <<fetchVars, keyVars, rssVars, parseVars>>

\* space_scraper.warm_up(&client).await?
WarmUp ==
    /\ mpc = "warm_up"
    /\ \E ok \in BOOLEAN :
        IF ok
        THEN /\ mpc' = "fetch"
             /\ UNCHANGED <<exit_status, failed>>
        ELSE /\ MainErr
             /\ failed' = failed \cup {<<("Space"), "warm_up">>}
    /\ UNCHANGED <<feed_filter, group, venue, sources, written, rss_xml, stderr, io_failed>>
    /\ UNCHANGED <<fetchVars, keyVars, rssVars, parseVars>>

\* x_scraper.fetch_films(&client).await.unwrap_or_default(), and for
\* Cinema Rex the match with eprintln!
FetchVenue ==
    /\ mpc = "fetch"
    /\ LET venues == FeedGroups[group].venues
           v == venues[venue]
       IN  \E r \in {[ok |-> FALSE], [ok |-> TRUE, films |-> <<>>], [ok |-> TRUE, films |-> <<"film">>]} :
            /\ sources' = Append(sources, [venue |-> v, films |-> unwrap_or_default(r)])
            /\ failed' = IF r.ok THEN failed ELSE failed \cup {<<v, "fetch_films">>}
            /\ stderr' = IF ~r.ok /\ v \in {"Rex"} THEN Append(stderr, v) ELSE stderr
            /\ IF venue < Len(venues)
               THEN venue' = venue + 1 /\ UNCHANGED mpc
               ELSE mpc' = "generate" /\ UNCHANGED venue
    /\ UNCHANGED <<feed_filter, group, written, rss_xml, exit_status, io_failed>>
    /\ UNCHANGED <<fetchVars, keyVars, rssVars, parseVars>>

\* generate_rss(...)? / generate_rss_merged(...)?
GenerateRss ==
    /\ mpc = "generate"
    /\ \E ok \in BOOLEAN :
        IF ok
        THEN /\ rss_xml' = sources
             /\ mpc' = "write"
             /\ UNCHANGED <<exit_status, io_failed>>
        ELSE /\ MainErr
             /\ io_failed' = TRUE
             /\ UNCHANGED rss_xml
    /\ UNCHANGED <<feed_filter, group, venue, sources, written, stderr, failed>>
    /\ UNCHANGED <<fetchVars, keyVars, rssVars, parseVars>>

\* fs::write(feed_path, rss_xml)?
WriteFeed ==
    /\ mpc = "write"
    /\ \E ok \in BOOLEAN :
        IF ok
        THEN /\ written' = Append(written, FeedGroups[group].feed)
             /\ group' = group + 1
             /\ mpc' = "group"
             /\ UNCHANGED <<exit_status, io_failed>>
        ELSE /\ MainErr
             /\ io_failed' = TRUE
             /\ UNCHANGED <<written, group>>
    /\ UNCHANGED <<feed_filter, venue, sources, rss_xml, stderr, failed>>
    /\ UNCHANGED <<fetchVars, keyVars, rssVars, parseVars>>

\* Ok(()) at the end of main
MainReturn ==
    /\ mpc = "group"
    /\ group > Len(FeedGroups)
    /\ exit_status' = "Ok"
    /\ mpc' = "done"
    /\ UNCHANGED <<feed_filter, group, venue, sources, written, rss_xml, stderr, failed,
                   io_failed>>
    /\ UNCHANGED <<fetchVars, keyVars, rssVars, parseVars>>

NextMain == Start \/ EnterGroup \/ WarmUp \/ FetchVenue \/ GenerateRss \/ WriteFeed
            \/ MainReturn

(* ---------------------------------------------------------------------- *)
(* canonical_film_key applied to a pair of URLs                            *)
(* ---------------------------------------------------------------------- *)
\* what precedes the last path segment
\* the last segment without its suffix
\* what follows the stem: nothing, a separator and 12 digits, a separator
\* and 11 digits, a separator and 12 characters that are not all digits

KeyUrls == {b \o st \o t \o sl : b \in {<<"/", "f", "i", "l", "m", "/">>, <<"h", "t", "t", "p", "s", ":", "/", "/", "x", ".", "o", "r", "g", "/", "f", "i", "l", "m", "/">>}, st \in {<<>>, <<"4", "2">>, <<"a", "_", "b">>}, t \in {<<>>, <<"_", "2", "0", "2", "6", "0", "2", "0", "9", "1", "7", "0", "0">>, <<"_", "2", "0", "2", "6", "0", "2", "0", "9", "1", "8", "0", "1">>, <<"-", "2", "0", "2", "6", "0", "2", "0", "9", "1", "7", "0", "0">>, <<"-", "2", "0", "2", "6", "0", "2", "0", "9", "1", "8", "0", "1">>, <<"_", "2", "0", "2", "6", "0", "2", "0", "9", "1", "7", "0">>, <<"_", "2", "0", "2", "6", "0", "2", "0", "9", "1", "7", "x", "x">>},
                                sl \in {<<>>, <<"/">>}}

KeyIdle ==
    /\ kpc = "idle"
    /\ url_a = <<>>
    /\ url_b = <<>>
    /\ key_a = None
    /\ key_b = None

\* canonical_film_key(&url_a)
KeyOfA ==
    /\ kpc = "input"
    /\ key_a = None
    /\ key_a' = Some(canonical_film_key(url_a))
    /\ kpc' = IF key_b = None THEN "input" ELSE "done"
    /\ UNCHANGED <<url_a, url_b, key_b>>
    /\ UNCHANGED <<fetchVars, mainVars, rssVars, parseVars>>

\* canonical_film_key(&url_b)
KeyOfB ==
    /\ kpc = "input"
    /\ key_b = None
    /\ key_b' = Some(canonical_film_key(url_b))
    /\ kpc' = IF key_a = None THEN "input" ELSE "done"
    /\ UNCHANGED <<url_a, url_b, key_a>>
    /\ UNCHANGED <<fetchVars, mainVars, rssVars, parseVars>>

NextKey == KeyOfA \/ KeyOfB

(* ---------------------------------------------------------------------- *)
(* One call of generate_rss or generate_rss_merged                        *)
(* ---------------------------------------------------------------------- *)

RssIdle ==
    /\ rpc = "idle"
    /\ rss_sources = <<>>
    /\ rss_films = <<>>
    /\ rss_call = "none"
    /\ channel = ([items |-> <<"no channel">>])

InitRss ==
    /\ rpc = "input"
    \* one Film of any kind, or lists of a few Films with different urls
    /\ \/ \E f \in [title : {<<>>, <<"T">>}, url : {<<"u">>},
                      poster_url : {None, Some(<<"p", ".", "j", "p", "g">>)},
                      cast : {None, Some(<<"C">>)},
                      release_date : {None, Some(<<"1", " ", "M", "a", "r", "z", "o">>), Some(<<"1", " ", "A", "p", "r", "i", "l", "e">>), Some(<<"2", "0", "2", "6">>)},
                      running_time : {None, Some(0), Some(95)},
                      synopsis : {None, Some(<<>>), Some(<<"S">>)},
                      showtimes : {None, Some(<<>>), Some(<<<<"a">>>>), Some(<<<<"a">>, <<"b">>>>)}] :
            rss_sources = <<[name |-> <<"R", "e", "x">>, films |-> <<f>>]>>
       \/ LET few == {f \in [title : {<<"T">>}, url : {<<"u">>, <<"v">>}, poster_url : {None},
                              cast : {None}, release_date : {None, Some(<<"1", " ", "M", "a", "r", "z", "o">>)},
                              running_time : {None}, synopsis : {None},
                              showtimes : {None}] :
                         f.url = <<"v">> => f.release_date = None}
          IN  rss_sources \in SeqsUpTo([name : {<<"R", "e", "x">>, <<"A", "s", "t", "r", "a">>},
                                        films : SeqsUpTo(few, MaxFilms)], MaxSources)
    /\ rss_films = <<>>
    /\ rss_call = "none"
    /\ channel = ([items |-> <<"no channel">>])

\* generate_rss(&films, ...) on the films of one of the sources
GenerateRssCall ==
    /\ rpc = "input"
    /\ \E k \in DOMAIN rss_sources : \E now \in {"Mon, 09 Feb 2026", "Tue, 10 Feb 2026"} :
        /\ rss_films' = rss_sources[k].films
        /\ channel' = generate_rss(rss_sources[k].films, now)
    /\ rss_call' = "generate_rss"
    /\ rpc' = "done"
    /\ UNCHANGED rss_sources
    /\ UNCHANGED <<fetchVars, mainVars, keyVars, parseVars>>

\* generate_rss_merged(..., &sources)
GenerateRssMergedCall ==
    /\ rpc = "input"
    /\ \E now \in {"Mon, 09 Feb 2026", "Tue, 10 Feb 2026"} :
        channel' = generate_rss_merged(rss_sources, now)
    /\ rss_call' = "generate_rss_merged"
    /\ rpc' = "done"
    /\ UNCHANGED <<rss_sources, rss_films>>
    /\ UNCHANGED <<fetchVars, mainVars, keyVars, parseVars>>

NextRss == GenerateRssCall \/ GenerateRssMergedCall

(* ---------------------------------------------------------------------- *)
(* One call of a parsing step                                              *)
(* ---------------------------------------------------------------------- *)
ParseIdle ==
    /\ parse_call = "none"
    /\ parse_arg = [none |-> TRUE]
    /\ parse_ret = None

\* the inputs of the steps: the trimmed, non-empty text lines of a
\* PortoAstra page; the trimmed, non-empty texts of a Trieste showtime div;
\* a text line of a Cristallo page (for a line
\* "Durata: <H> ore <M> minuti" with the numerals H and M it was written
\* from); a date label with the texts of its time
\* entries; the runningTime of an API film
ParseArgs ==
    [all_text : SeqsUpTo({<<"O", "R", "A", "R", "I">>, <<"A", "L", "T", "R", "I", " ", "F", "I", "L", "M">>, <<"D", "o", "m", "e", "n", "i", "c", "a", " ", "1", "5", "/", "0", "2">>, <<"*", "*", "L", "u", "n", "e", "d", "ì", " ", "1", "6", "/", "0", "2", "*", "*">>,
                          <<"1", "0", ".", "0", "0">>, <<"1", "7", ".", "4", "0", "2", "0", ".", "1", "0">>}, MaxLines)]
    \cup [items : SeqsUpTo({<<"9", " ", "f", "e", "b", "b", "r", "a", "i", "o">>, <<"1", "0", " ", "m", "a", "r", "z", "o">>, <<"1", "7", ".", "3", "0">>, <<"1", "7", ".", "3", "0", ".", "0", "0">>, <<"2", "0", ":", "0", "0">>,
                            <<"v", ".", "o", ".">>, <<"I", "n", "g", "r", "e", "s", "s", "o", " ", "5">>}, MaxItems)]
    \cup {[line |-> <<"D", "u", "r", "a", "t", "a", ":", " ">> \o h \o <<" ", "o", "r", "e", " ">> \o m \o <<" ", "m", "i", "n", "u", "t", "i">>, hours |-> h, minutes |-> m] :
            h \in {<<"0">>, <<"1">>, <<"0", "1">>, <<"2">>, <<"+", "1">>, <<"7", "1", "5", "8", "2", "7", "8", "8">>, <<"7", "1", "5", "8", "2", "7", "8", "9">>, <<"4", "2", "9", "4", "9", "6", "7", "2", "9", "6">>},
            m \in {<<"0">>, <<"1", "5">>, <<"1", "6">>, <<"4", "2">>, <<"6", "0">>}}
    \cup [line : {<<"D", "u", "r", "a", "t", "a", ":", " ", "9", "0", " ", "m", "i", "n">>, <<"D", "U", "R", "A", "T", "A", ":", "9", "0", " ", "m", "i", "n", "u", "t", "i">>, <<"D", "u", "r", "a", "t", "a", " ", "9", "0", " ", "m", "i", "n", "u", "t", "i">>,
                  <<"D", "u", "r", "a", "t", "a", ":", " ", "2", " ", "o", "r", "e">>, <<"G", "e", "n", "e", "r", "e", ":", " ", "1", " ", "o", "r", "e">>}]
    \cup [date : {<<>>, <<"m", "a", "r", " ", "1", "1", " ", "N", "o", "v", ".">>},
          texts : SeqsUpTo({<<"1", "7", ".", "0", "0">>, <<"o", "r", "e", " ", "2", "1", ".", "1", "5", " ", "s", "a", "l", "a", " ", "2">>, <<"S", "a", "l", "a", " ", "1">>, <<"1", "7", ":", "0", "0">>}, MaxTimes)]
    \cup [runningTime : {(-2147483647) - 1, -90, -1, 0, 1, 90, 65536, 2147483647}]

\* the showtimes block of PortoAstraScraper::fetch_films
PortoAstraShowtimesCall ==
    /\ parse_ret = None
    /\ "all_text" \in DOMAIN parse_arg
    /\ parse_call' = "PortoAstraShowtimes"
    /\ parse_ret' = Some(PortoAstraShowtimes(parse_arg.all_text))
    /\ UNCHANGED parse_arg
    /\ UNCHANGED <<fetchVars, mainVars, keyVars, rssVars>>

\* the showtime loop of CinemaTriesteScraper::fetch_films
TriesteShowtimesCall ==
    /\ parse_ret = None
    /\ "items" \in DOMAIN parse_arg
    /\ parse_call' = "TriesteShowtimes"
    /\ parse_ret' = Some(TriesteShowtimes(parse_arg.items))
    /\ UNCHANGED parse_arg
    /\ UNCHANGED <<fetchVars, mainVars, keyVars, rssVars>>

\* the "durata" branch of the line loop of RassegneScraper::fetch_films
RassegneRunningTimeCall ==
    /\ parse_ret = None
    /\ "line" \in DOMAIN parse_arg
    /\ parse_call' = "RassegneRunningTime"
    /\ parse_ret' = Some(RassegneRunningTime(parse_arg.line))
    /\ UNCHANGED parse_arg
    /\ UNCHANGED <<fetchVars, mainVars, keyVars, rssVars>>

\* the showtime widgets of RassegneScraper::fetch_films
RassegneShowtimesCall ==
    /\ parse_ret = None
    /\ "texts" \in DOMAIN parse_arg
    /\ parse_call' = "RassegneShowtimes"
    /\ parse_ret' = Some(RassegneShowtimes(parse_arg.date, parse_arg.texts))
    /\ UNCHANGED parse_arg
    /\ UNCHANGED <<fetchVars, mainVars, keyVars, rssVars>>

\* running_time: Some(f.runningTime as u32) of SpaceCinemaScraper
SpaceRunningTimeCall ==
    /\ parse_ret = None
    /\ "runningTime" \in DOMAIN parse_arg
    /\ parse_call' = "SpaceRunningTime"
    /\ parse_ret' = Some(Some(AsU32(parse_arg.runningTime)))
    /\ UNCHANGED parse_arg
    /\ UNCHANGED <<fetchVars, mainVars, keyVars, rssVars>>

NextParse == PortoAstraShowtimesCall \/ TriesteShowtimesCall \/ RassegneRunningTimeCall
             \/ RassegneShowtimesCall \/ SpaceRunningTimeCall

(* ---------------------------------------------------------------------- *)
(* Specifications                                                          *)
(* ---------------------------------------------------------------------- *)
FetchIdle ==
    /\ scraper = "none"
    /\ pc = "idle"
    /\ body = (<<"no body">>)
    /\ film_urls = <<>>
    /\ films = <<>>
    /\ result = "none"
    /\ request = None
    /\ title = <<>>
    /\ inner_urls = <<>>
    /\ inner_infos = <<>>
    /\ listing_status = "none"
    /\ discovered = <<>>
    /\ outcomes = <<>>

MainIdle ==
    /\ mpc = "idle"
    /\ feed_filter = None
    /\ group = 1
    /\ venue = 1
    /\ sources = <<>>
    /\ written = <<>>
    /\ rss_xml = <<>>
    /\ stderr = <<>>
    /\ exit_status = "none"
    /\ failed = {}
    /\ io_failed = FALSE

\* one fetch_films call of one scraper
Init ==
    /\ scraper \in {"Trieste", "Space", "Edera", "Padova", "Cinemazero", "Pizzuti", "Berlinale",
                    "NewBev", "Cinergia", "PortoAstra", "Rassegne", "EderaRassegne",
                    "RassegneEdera"}
    /\ pc = "start"
    /\ body = (<<"no body">>)
    /\ film_urls = <<>>
    /\ films = <<>>
    /\ result = "none"
    /\ request = None
    /\ title = <<>>
    /\ inner_urls = <<>>
    /\ inner_infos = <<>>
    /\ listing_status = "none"
    /\ discovered = <<>>
    /\ outcomes = <<>>
    /\ MainIdle
    /\ KeyIdle
    /\ RssIdle
    /\ ParseIdle

Next == NextFetch
Spec == Init /\ [][Next]_vars

\* one run of main
InitOfMain ==
    /\ FetchIdle
    /\ mpc = "start"
    /\ feed_filter = None
    /\ group = 1
    /\ venue = 1
    /\ sources = <<>>
    /\ written = <<>>
    /\ rss_xml = <<>>
    /\ stderr = <<>>
    /\ exit_status = "none"
    /\ failed = {}
    /\ io_failed = FALSE
    /\ KeyIdle
    /\ RssIdle
    /\ ParseIdle

SpecMain == InitOfMain /\ [][NextMain]_vars

\* canonical_film_key on two URLs
InitOfKey ==
    /\ FetchIdle
    /\ MainIdle
    /\ kpc = "input"
    /\ url_a \in KeyUrls
    /\ url_b \in KeyUrls
    /\ key_a = None
    /\ key_b = None
    /\ RssIdle
    /\ ParseIdle

SpecKey == InitOfKey /\ [][NextKey]_vars

\* one call of generate_rss or generate_rss_merged
InitOfRss == FetchIdle /\ MainIdle /\ KeyIdle /\ InitRss /\ ParseIdle

SpecRss == InitOfRss /\ [][NextRss]_vars

\* one call of one parsing step on one input
InitOfParse ==
    /\ FetchIdle /\ MainIdle /\ KeyIdle /\ RssIdle
    /\ parse_call = "none"
    /\ parse_arg \in ParseArgs
    /\ parse_ret = None

SpecParse == InitOfParse /\ [][NextParse]_vars

(* ---------------------------------------------------------------------- *)
(* Properties                                                              *)
(* ---------------------------------------------------------------------- *)
FailureStatuses == Statuses \ {"ok"}
Range(s) == {s[i] : i \in DOMAIN s}
Count(s, x) == Cardinality({i \in DOMAIN s : s[i] = x})
PairwiseDistinct(s) == \A i, j \in DOMAIN s : i < j => s[i] # s[j]
LexSorted(s) == \A i \in DOMAIN s : i < Len(s) => (s[i] = s[i + 1] \/ LexLess(s[i], s[i + 1]))

\* C1: for every scraper, when the GET of a detail page fails (network
\* error or non-2xx status), fetch_films does not return an error: a call
\* that saw a failed detail request ends with Ok.
C1_DetailFailureTolerated ==
    (pc = "done" /\ listing_status = "ok" /\ \E i \in DOMAIN outcomes : outcomes[i] \in FailureStatuses)
        => result = "Ok"

\* C2: for every scraper, if the listing (or API) request fails with a
\* transport error or a non-2xx status, fetch_films returns an error and
\* emits no records; the failure never becomes an Ok result.
C2_ListingFailurePropagates ==
    listing_status \in FailureStatuses => (pc = "done" /\ result = "Err" /\ films = <<>>)

\* C2, the case: a listing request answered with a non-2xx status, the
\* call over
C2_ListingFailureSeen ==
    pc = "done" /\ listing_status = "http_err" /\ request = None /\ outcomes = <<>>

\* whether the listing body is well-formed for the scraper's parser
ListingParses == IF scraper \in {"Space", "Padova"} THEN body.valid ELSE TRUE

\* C3: for every scraper, when the listing request succeeds but discovery
\* finds no detail URL (a listing without the expected container
\* included), fetch_films returns Ok with an empty sequence, never an error.
C3_NoUrlsIsOkEmpty ==
    (pc = "done" /\ listing_status = "ok" /\ ListingParses /\ discovered = <<>>)
        => (result = "Ok" /\ films = <<>>)

\* C4: in main, an error returned by a venue's warm_up or fetch_films never
\* aborts the run: unless a local operation fails, main returns Ok and the
\* feed of every selected group has been written.
C4_ScraperErrorNeverAborts ==
    (mpc = "done" /\ ~io_failed)
        => /\ exit_status = "Ok"
           /\ \A g \in DOMAIN FeedGroups : Selected(g) => FeedGroups[g].feed \in Range(written)

\* C24: whenever a venue's fetch_films returned an error, main has written
\* a report about that venue to the diagnostic stream: no fetch error is
\* discarded silently.
C24_FetchErrorReported ==
    \A f \in failed : f[2] = "fetch_films" => f[1] \in Range(stderr)

\* C5: every Film returned by fetch_films has a non-empty title and a
\* non-empty url.
C5_FilmsHaveTitleAndUrl ==
    result = "Ok" => \A i \in DOMAIN films : films[i].title # <<>> /\ films[i].url # <<>>

\* C6: no two Films returned by one fetch_films call have the same url.
C6_UrlsPairwiseDistinct ==
    result = "Ok" => PairwiseDistinct(Urls(films))

\* C7: when exactly one of three discovered candidates answers its detail
\* GET with a non-2xx status and the other two load, fetch_films returns Ok
\* with exactly 2 Films.
C7_OneOfThreeFails ==
    (/\ pc = "done"
     /\ Len(discovered) = 3
     /\ Count(outcomes, "http_err") = 1
     /\ Count(outcomes, "titled") + Count(outcomes, "loaded") = 2
     /\ Len(outcomes) = 3)
        => (result = "Ok" /\ Len(films) = 2)

\* C8: a detail page that was fetched and has no title to extract adds no
\* Film to the result.
C8_UntitledPageDropped ==
    [][(pc = "detail" /\ outcomes' = Append(outcomes, "untitled")) => films' = films]_vars

\* the last path segment of a URL, trailing slashes dropped
LastSegment(url) ==
    LET u == TrimEndMatches(url, "/")
    IN  SubSeq(u, RFind(u, "/") + 1, Len(u))

\* the last segment ends with '_' or '-' and 12 digits
HasTimestampSuffix(url) ==
    LET seg == LastSegment(url)
    IN  /\ Len(seg) >= 13
        /\ seg[Len(seg) - 12] \in {"_", "-"}
        /\ AllDigits(SubSeq(seg, Len(seg) - 11, Len(seg)))

\* a and b are the same URL up to the 12 digits of the suffix
DifferOnlyInSuffixDigits(a, b) ==
    /\ HasTimestampSuffix(a)
    /\ HasTimestampSuffix(b)
    /\ Len(a) = Len(b)
    /\ Len(TrimEndMatches(a, "/")) = Len(TrimEndMatches(b, "/"))
    /\ LET n == Len(TrimEndMatches(a, "/"))
       IN  \A i \in 1..Len(a) : (i <= n - 12 \/ i > n) => a[i] = b[i]

\* the URL without separator and digits, with one trailing slash
WithoutSuffix(url) ==
    LET u == TrimEndMatches(url, "/")
    IN  SubSeq(u, 1, Len(u) - 13) \o <<"/">>

C25_PushedFilmNeverChanges ==
    [][\A i \in DOMAIN films : i \in DOMAIN films' /\ films'[i] = films[i]]_vars

\* C26: at most one HTTP request is outstanding at any time; while one is
\* outstanding the call does nothing but await it; a detail or inner request
\* is outstanding only after the listing has been loaded, and it is the
\* request for the head of the queue, all earlier candidates being handled.
C26_OneRequestAtATime ==
    /\ Len(request) <= 1
    /\ request # <<>> <=> pc \in {"listing", "detail", "inner"}
    /\ \A i \in DOMAIN request :
        /\ request[i].kind = "listing" <=> pc = "listing"
        /\ request[i].kind = "detail" =>
              /\ pc = "detail"
              /\ listing_status = "ok"
              /\ request[i].url = ItemUrl(scraper, Head(film_urls))
        /\ request[i].kind = "inner" =>
              /\ pc = "inner"
              /\ listing_status = "ok"
              /\ request[i].url = Head(inner_urls)

\* C26, the case: the second detail request of a Berlinale run is
\* outstanding, the first one answered
C26_SecondDetailOutstanding ==
    /\ scraper = "Berlinale"
    /\ pc = "detail"
    /\ Len(outcomes) = 1
    /\ Len(request) = 1
    /\ Len(film_urls) >= 1

\* C29: the canonical key of a URL whose last segment carries a
\* _YYYYMMDDHHMM or -YYYYMMDDHHMM suffix after a stem equals the canonical
\* key of the same URL written without that suffix, so the two links are
\* one film for the discovery.
C29_SuffixedAndPlainSameKey ==
    (/\ kpc = "done"
     /\ HasTimestampSuffix(url_a)
     /\ Len(LastSegment(url_a)) > 13
     /\ TrimEndMatches(url_b, "/") \o <<"/">> = WithoutSuffix(url_a))
        => key_a = key_b

\* the canonical keys of the film links of a Trieste listing
TriesteKeys(anchors) ==
    {canonical_film_key(Absolute3(TRIESTE_BASE, Trim(anchors[i]))) :
        i \in {k \in DOMAIN anchors : Contains(anchors[k], FILM_PATH) /\ Trim(anchors[k]) # <<>>}}

\* C10: for a listing with N film links distinct by canonical key and M
\* links that duplicate one of them, discovery returns exactly N URLs, each
\* in canonical form, pairwise distinct, in lexicographic order.
C10_DiscoveryCanonicalSorted ==
    (scraper \in {"Trieste", "Berlinale", "Cinemazero"} /\ listing_status = "ok")
        => /\ PairwiseDistinct(discovered)
           /\ LexSorted(discovered)
           /\ scraper = "Trieste" =>
                /\ Len(discovered) = Cardinality(TriesteKeys(body))
                /\ \A i \in DOMAIN discovered : canonical_film_key(discovered[i]) = discovered[i]

\* C11: discovery and emission order are deterministic: every run of
\* fetch_films against the listing response of this run visits the detail
\* URLs in the order this run visits them.
C11_VisitOrderDetermined ==
    listing_status = "ok"
        => \A d \in Discovery(scraper, body) : d.kind = "loop" => d.found = discovered

\* C12: a listing with the three anchors /film/100, /film/100?d=2 and
\* /film/200, whose detail pages all load, gives exactly 2 Films, one for
\* /film/100 and one for /film/200 (PortoAstraScraper).
C12_SameFilmTwiceGivesTwoRecords ==
    (/\ scraper = "PortoAstra"
     /\ pc = "done"
     /\ body = <<<<"/", "f", "i", "l", "m", "/", "1", "0", "0">>, <<"/", "f", "i", "l", "m", "/", "1", "0", "0", "?", "d", "=", "2">>, <<"/", "f", "i", "l", "m", "/", "2", "0", "0">>>>
     /\ outcomes = <<"titled", "titled", "titled">>)
        => /\ result = "Ok"
           /\ Len(films) = 2
           /\ Range(Urls(films)) = {<<"h", "t", "t", "p", "s", ":", "/", "/", "p", "o", "r", "t", "o", "a", "s", "t", "r", "a", ".", "i", "t", "/", "f", "i", "l", "m", "/", "1", "0", "0">>,
                                    <<"h", "t", "t", "p", "s", ":", "/", "/", "p", "o", "r", "t", "o", "a", "s", "t", "r", "a", ".", "i", "t", "/", "f", "i", "l", "m", "/", "2", "0", "0">>}

\* C13: in every returned Film the showtimes sequence contains no two
\* equal strings (the Films that carry showtimes in this model are those of
\* NewBevScraper).
C13_ShowtimesDistinct ==
    result = "Ok"
        => \A i \in DOMAIN films :
              ("showtimes" \in DOMAIN films[i] /\ IsSome(films[i].showtimes))
                  => PairwiseDistinct(films[i].showtimes[1])

\* C14: when the merge collapses several schedule entries with the same
\* URL, the title and the poster of the merged program are those of the
\* first entry, in schedule order, that has the field populated; a later
\* entry's poster is used when the earlier ones have none.
C14_FirstPopulatedFieldWins ==
    (scraper = "NewBev" /\ listing_status = "ok")
        => \A i \in DOMAIN film_urls :
              LET es == SelectSeq(parse_schedule(body), LAMBDA e : e.url = film_urls[i].url)
              IN  /\ film_urls[i].title = es[1].title
                  /\ film_urls[i].poster_url = FirstPoster([k \in DOMAIN es |-> es[k].poster_url])

\* the schedule entries a sequence of merged programs stands for: one per
\* program and showtime, in order
RECURSIVE EntriesOfPrograms(_)
EntriesOfPrograms(programs) ==
    IF programs = <<>> THEN <<>>
    ELSE LET p == Head(programs)
         IN  [k \in DOMAIN p.showtimes |->
                 ScheduleEntry(p.title, p.url, p.showtimes[k], p.poster_url)]
             \o EntriesOfPrograms(Tail(programs))

\* C15: the merge is idempotent: applied to the entries of a sequence that
\* is the output of the merge, it returns the same sequence (same records,
\* same order, same showtimes).
C15_MergeIdempotent ==
    (scraper = "NewBev" /\ pc = "loop" /\ Len(film_urls) = Len(discovered))
        => \A again \in Orderings(MergeByUrl(EntriesOfPrograms(film_urls), {})) :
              again = film_urls

\* number of items that come before those of the k-th source
RECURSIVE Offset(_)
Offset(k) == IF k = 1 THEN 0 ELSE Offset(k - 1) + Len(rss_sources[k - 1].films)

\* P(item, film, k) holds of every input Film and the item at its place:
\* generate_rss has one item per Film, in input order; generate_rss_merged
\* has those of the first source, then those of the second, and so on, k
\* being the source's index
EachItem(P(_, _, _)) ==
    IF rss_call = "generate_rss"
    THEN /\ Len(channel.items) = Len(rss_films)
         /\ \A i \in DOMAIN rss_films : P(channel.items[i], rss_films[i], 0)
    ELSE /\ Len(channel.items) = Offset(Len(rss_sources) + 1)
         /\ \A k \in DOMAIN rss_sources : \A i \in DOMAIN rss_sources[k].films :
               P(channel.items[Offset(k) + i], rss_sources[k].films[i], k)

\* C16: generate_rss and generate_rss_merged produce exactly one item per
\* input Film, in input order; the item's GUID value and its link are the
\* Film's url and the GUID is a permalink.
C16_OneItemPerFilmGuidIsUrl ==
    rpc = "done"
        => EachItem(LAMBDA item, film, k :
              /\ item.guid = Some([value |-> film.url, permalink |-> TRUE])
              /\ item.link = Some(film.url))

\* C16, the case: generate_rss has returned the items of two Films with
\* different urls
C16_TwoFilmsTwoGuids ==
    /\ rpc = "done"
    /\ rss_call = "generate_rss"
    /\ Len(rss_films) = 2
    /\ rss_films[1].url # rss_films[2].url
    /\ channel.items[1].guid[1].value = rss_films[1].url
    /\ channel.items[2].guid[1].value = rss_films[2].url

\* the fragments of the description for the fields of film that are
\* present, in the order synopsis, cast, release date, running time, poster,
\* showtimes
Fragments(film) ==
    LET quote == <<"\"">>
        with(prefix, field, suffix) ==
            IF IsSome(field) THEN Some(prefix \o field[1] \o suffix) ELSE None
        all == << film.synopsis,
                  with(<<"C", "a", "s", "t", ":", " ">>, film.cast, <<>>),
                  with(<<"D", "a", "t", "a", ":", " ">>, film.release_date, <<>>),
                  IF IsSome(film.running_time)
                  THEN Some(<<"D", "u", "r", "a", "t", "a", ":", " ">> \o ToDecimal(film.running_time[1]) \o <<" ", "m", "i", "n", "u", "t", "i">>)
                  ELSE None,
                  with(<<"<", "i", "m", "g", " ", "s", "r", "c", "=">> \o quote, film.poster_url,
                       quote \o <<" ", "a", "l", "t", "=">> \o quote \o <<"P", "o", "s", "t", "e", "r">> \o quote \o <<" ", "/", ">">>),
                  IF IsSome(film.showtimes) /\ film.showtimes[1] # <<>>
                  THEN Some(<<"O", "r", "a", "r", "i", ":", " ">> \o Join(film.showtimes[1], <<",", " ">>))
                  ELSE None >>
        present == SelectSeq(all, IsSome)
    IN  [i \in DOMAIN present |-> present[i][1]]

\* C17, as stated: for every Film the description is the concatenation, in
\* the fixed order, of the fragments of the fields that are present, with
\* nothing but the separator between them.
C17_DescriptionIsTheFragments ==
    rpc = "done"
        => EachItem(LAMBDA item, film, k :
              item.description = Some(Join(Fragments(film), <<"<", "b", "r", "/", ">">> \o <<"\n">>)))

\* C17, amended: the same for every Film that has at least one fragment; a
\* Film with none has the description "Film: <title>".
C17_DescriptionIsTheFragmentsIfAny ==
    rpc = "done"
        => EachItem(LAMBDA item, film, k :
              item.description =
                  Some(IF Fragments(film) = <<>> THEN <<"F", "i", "l", "m", ":", " ">> \o film.title
                       ELSE Join(Fragments(film), <<"<", "b", "r", "/", ">">> \o <<"\n">>)))

\* C17, the case: the description of a Film with a cast, a release date and
\* two showtimes, and without synopsis, running time and poster
C17_ThreeFragmentsJoined ==
    /\ rpc = "done"
    /\ rss_call = "generate_rss"
    /\ Len(rss_films) = 1
    /\ rss_films[1].synopsis = None
    /\ rss_films[1].running_time = None
    /\ rss_films[1].poster_url = None
    /\ channel.items[1].description
         = Some(<<"C", "a", "s", "t", ":", " ", "C">> \o <<"<", "b", "r", "/", ">">> \o <<"\n">> \o <<"D", "a", "t", "a", ":", " ", "1", " ", "A", "p", "r", "i", "l", "e">>
                \o <<"<", "b", "r", "/", ">">> \o <<"\n">> \o <<"O", "r", "a", "r", "i", ":", " ", "a", ",", " ", "b">>)

\* C18: a Film with every optional field absent has the description
\* "Film: <title>", and the description of every Film is a non-empty string.
C18_DescriptionNeverEmpty ==
    rpc = "done"
        => EachItem(LAMBDA item, film, k :
              /\ (/\ film.synopsis = None /\ film.cast = None /\ film.release_date = None
                  /\ film.running_time = None /\ film.poster_url = None
                  /\ film.showtimes = None)
                    => item.description = Some(<<"F", "i", "l", "m", ":", " ">> \o film.title)
              /\ IsSome(item.description)
              /\ item.description[1] # <<>>)

ItalianMonths ==
    {<<"G", "e", "n", "n", "a", "i", "o">>, <<"F", "e", "b", "b", "r", "a", "i", "o">>, <<"M", "a", "r", "z", "o">>, <<"A", "p", "r", "i", "l", "e">>, <<"M", "a", "g", "g", "i", "o">>, <<"G", "i", "u", "g", "n", "o">>, <<"L", "u", "g", "l", "i", "o">>,
     <<"A", "g", "o", "s", "t", "o">>, <<"S", "e", "t", "t", "e", "m", "b", "r", "e">>, <<"O", "t", "t", "o", "b", "r", "e">>, <<"N", "o", "v", "e", "m", "b", "r", "e">>, <<"D", "i", "c", "e", "m", "b", "r", "e">>}

\* C19: an item carries a publish date only when the Film's release_date is
\* present and contains an Italian month name.
C19_PubDateOnlyWithItalianMonth ==
    rpc = "done"
        => EachItem(LAMBDA item, film, k :
              IsSome(item.pub_date)
                  => /\ IsSome(film.release_date)
                     /\ \E month \in ItalianMonths : Contains(film.release_date[1], month))

\* C19, the case: of two Films, the one released "1 Marzo" has a publish
\* date and the one without a release date has none
C19_DatedAndUndatedItem ==
    /\ rpc = "done"
    /\ rss_call = "generate_rss"
    /\ Len(rss_films) = 2
    /\ rss_films[1].release_date = Some(<<"1", " ", "M", "a", "r", "z", "o">>)
    /\ rss_films[2].release_date = None
    /\ IsSome(channel.items[1].pub_date)
    /\ channel.items[2].pub_date = None

\* C20: in generate_rss_merged every item carries exactly one category,
\* named after the source its Film came from, and the items are grouped by
\* source in the order of the sources, Films in list order within a source.
C20_CategoryIsSourceName ==
    (rpc = "done" /\ rss_call = "generate_rss_merged")
        => EachItem(LAMBDA item, film, k :
              /\ Len(item.categories) = 1
              /\ item.categories[1].name = rss_sources[k].name
              /\ item.link = Some(film.url)
              /\ item.title = Some(film.title))

\* C20, the case: two sources with different names, the first with two
\* Films and the second with one, merged into three items
C20_TwoSourcesMerged ==
    /\ rpc = "done"
    /\ rss_call = "generate_rss_merged"
    /\ Len(rss_sources) = 2
    /\ rss_sources[1].name # rss_sources[2].name
    /\ Len(rss_sources[1].films) = 2
    /\ Len(rss_sources[2].films) = 1
    /\ Len(channel.items) = 3
    /\ channel.items[2].categories[1].name = rss_sources[1].name
    /\ channel.items[3].categories[1].name = rss_sources[2].name

\* the value of a decimal numeral as hi * 65536 + lo, hi of any size
RECURSIVE Big(_, _)
Big(digits, acc) ==
    IF digits = <<>> THEN acc
    ELSE LET d == CHOOSE v \in 0..9 : ToDecimal(v) = <<Head(digits)>>
             lo == acc.lo * 10 + d
         IN  Big(Tail(digits), [hi |-> acc.hi * 10 + lo \div Limb, lo |-> lo % Limb])

\* H * 60 + M for the numerals h and m, in the same form
Total(h, m) ==
    LET H == Big(h, U32(0))
        M == Big(m, U32(0))
        lo == H.lo * 60 + M.lo
    IN  [hi |-> H.hi * 60 + M.hi + lo \div Limb, lo |-> lo % Limb]

\* the input is a line "Durata: <H> ore <M> minuti" with H and M numerals
IsDurationLine ==
    /\ parse_call = "RassegneRunningTime"
    /\ "hours" \in DOMAIN parse_arg
    /\ AllDigits(parse_arg.hours)

\* C21, as stated: for every duration string "<H> ore <M> minuti" with
\* non-negative integers H and M, the parsed running_time equals H*60+M.
C21_RunningTimeIsTotalMinutes ==
    IsDurationLine => parse_ret[1] = Some(Total(parse_arg.hours, parse_arg.minutes))

\* C21, amended: the same for the strings with 0 < H*60+M <= u32::MAX.
C21_RunningTimeIsTotalMinutesInRange ==
    (/\ IsDurationLine
     /\ Total(parse_arg.hours, parse_arg.minutes) # U32(0)
     /\ Total(parse_arg.hours, parse_arg.minutes).hi < Limb)
        => parse_ret[1] = Some(Total(parse_arg.hours, parse_arg.minutes))

\* C21, the case: "01 ore 42 minuti" has been parsed to 102
C21_OneHourFortyTwo ==
    /\ parse_call = "RassegneRunningTime"
    /\ parse_arg.line = <<"D", "u", "r", "a", "t", "a", ":", " ", "0", "1", " ", "o", "r", "e", " ", "4", "2", " ", "m", "i", "n", "u", "t", "i">>
    /\ parse_ret = Some(Some(U32(102)))

\* s holds a time written with a dot between digits
HasDotTime(s) ==
    \E i \in 2..(Len(s) - 1) : s[i] = "." /\ IsAsciiDigit(s[i - 1]) /\ IsAsciiDigit(s[i + 1])

\* the showtime phrases the parsing step has emitted
Phrases ==
    CASE parse_call = "PortoAstraShowtimes" ->
            IF parse_ret[1].panic \/ parse_ret[1].showtimes = None THEN <<>>
            ELSE parse_ret[1].showtimes[1]
      [] parse_call \in {"TriesteShowtimes", "RassegneShowtimes"} -> parse_ret[1]
      [] OTHER -> <<>>

\* C22: in every scraper that builds showtime phrases from time tokens, no
\* emitted phrase holds a dot-separated time: "17.30" has become "17:30".
C22_NoDotSeparatedTime ==
    \A i \in DOMAIN Phrases : ~HasDotTime(Phrases[i])

\* C23, as stated: the time of a Trieste phrase is the token with exactly
\* its first '.' replaced by ':' and every other character, a later '.'
\* included, unchanged.
C23_OnlyFirstDotReplaced ==
    (/\ parse_call = "TriesteShowtimes"
     /\ Len(parse_arg.items) = 2
     /\ IsDateText(parse_arg.items[1])
     /\ IsTimeText(parse_arg.items[2]))
        => parse_ret[1] = <<parse_arg.items[1] \o <<" ", "o", "r", "e", " ">>
                                \o ReplaceFirst(parse_arg.items[2], ".", ":")>>

\* C23, amended: the time of a Trieste phrase is the token with every '.'
\* replaced by ':' and every other character unchanged.
C23_EveryDotReplaced ==
    (/\ parse_call = "TriesteShowtimes"
     /\ Len(parse_arg.items) = 2
     /\ IsDateText(parse_arg.items[1])
     /\ IsTimeText(parse_arg.items[2]))
        => /\ Len(parse_ret[1]) = 1
           /\ LET token == parse_arg.items[2]
                  lead == parse_arg.items[1] \o <<" ", "o", "r", "e", " ">>
                  phrase == parse_ret[1][1]
              IN  /\ Len(phrase) = Len(lead) + Len(token)
                  /\ SubSeq(phrase, 1, Len(lead)) = lead
                  /\ \A i \in DOMAIN token :
                        phrase[Len(lead) + i] = IF token[i] = "." THEN ":" ELSE token[i]

\* C23, the case: the token 17.30.00 under the date 9 febbraio
C23_TwoDotsNormalised ==
    /\ parse_call = "TriesteShowtimes"
    /\ parse_arg.items = <<<<"9", " ", "f", "e", "b", "b", "r", "a", "i", "o">>, <<"1", "7", ".", "3", "0", ".", "0", "0">>>>
    /\ parse_ret = Some(<<<<"9", " ", "f", "e", "b", "b", "r", "a", "i", "o", " ", "o", "r", "e", " ", "1", "7", ":", "3", "0", ":", "0", "0">>>>)

\* the phrases of the lines when every day takes the tokens of the lines
\* after its line and before the next day line, and the lines before the
\* first day line go to no day
RECURSIVE DayPhrases(_)
DayPhrases(lines) ==
    IF lines = <<>> THEN <<>>
    ELSE IF ~is_day_line(Head(lines)) THEN DayPhrases(Tail(lines))
    ELSE LET rest == Tail(lines)
             n == IF \E k \in DOMAIN rest : is_day_line(rest[k])
                  THEN (CHOOSE k \in DOMAIN rest :
                            is_day_line(rest[k]) /\ \A j \in 1..(k - 1) : ~is_day_line(rest[j])) - 1
                  ELSE Len(rest)
             toks == Flatten([k \in 1..n |-> parse_time_tokens(rest[k])])
         IN  (IF toks = <<>> THEN <<>> ELSE <<DayClean(Head(lines)) \o <<" ", "o", "r", "e", " ">> \o Join(toks, <<",", " ">>)>>)
                 \o DayPhrases(SubSeq(rest, n + 1, Len(rest)))

\* C27: the time tokens of every emitted PortoAstra phrase "<day> ore
\* <times>" are those read from the lines after that day's line and before
\* the next day line; a token seen before the first day line is attached
\* to no day.
C27_TokensBelongToTheirDay ==
    (parse_call = "PortoAstraShowtimes" /\ ~parse_ret[1].panic)
        => Phrases = DayPhrases(SubSeq(parse_arg.all_text, parse_ret[1].start + 1, parse_ret[1].end))

\* C28: the bounds of the ORARI slice satisfy start <= end whatever the
\* order of the first "ORARI" line and the first "ALTRI FILM" / "Articoli
\* correlati" line, and taking the section does not panic.
C28_SliceBoundsOrdered ==
    parse_call = "PortoAstraShowtimes"
        => (parse_ret[1].start <= parse_ret[1].end /\ ~parse_ret[1].panic)

\* C30: the running_time emitted for a Space API film is the number the
\* API gave as runningTime, a negative one included.
C30_RunningTimeIsApiValue ==
    parse_call = "SpaceRunningTime"
        => (/\ parse_arg.runningTime >= 0
            /\ parse_ret[1] = Some(U32(parse_arg.runningTime)))

====
